---- MODULE Spec2Model ----
(***************************************************************************)
(* A model of the Hades dialogue player: the interactive navigation loop   *)
(* of play_interactive.py (App.run / App.process_options) over a catalog   *)
(* of voice-over line-sets, and the line-set builder of hdialogue.py       *)
(* (Cue.from_data / VO.__init__), and the player of one line-set           *)
(* (VO.play).                                                              *)
(*                                                                         *)
(* Python strings whose characters matter (user input, audio references)   *)
(* are sequences of one-character strings; dictionaries are functions     *)
(* from key strings; JSON values carry a type tag because the code         *)
(* branches on type(data).                                                 *)
(***************************************************************************)
EXTENDS Integers, Sequences, FiniteSets, TLC

VARIABLES
    playing,      \* App.run: local `playing`
    autoplaying,  \* App.run: local `autoplaying`
    options,      \* App.run: local `options` (None or a list of Option)
    stack,        \* App.run: local `stack` (list of Breadcrumb)
    resp,         \* App.process_options: local `resp` (last input read, normalised)
    result,       \* App.run: local `result`
    pc,           \* where the session is: "top" | "prompt" | "wait" | "exit"
    exitcode,     \* the argument of sys.exit, -1 while running
    msg,          \* text of the self.error(...) call of the latest step, <<>> if none
    playlog,      \* history: VOs played since the last accepted menu command
    descent,      \* history: per frame, the stack and option list at the time it was pushed
    lineset,      \* VO.__init__: the raw line-set passed as `data`
    built,        \* VO.__init__: "new" before the call; then self.cues or NoCuesException
    vocues,       \* VO.play: self.cues of the VO being played
    file_map,     \* VO.play: self.file_map, audio id -> path of the asset
    media_player_list, \* VO.play: self.config.media_player_list
    do_prompt,    \* VO.play: argument do_prompt
    cuenum,       \* VO.play: 1-based index of `cue` in the for loop, 0 before it
    ppc,          \* VO.play: where the call is
    running,      \* external player processes started and not yet completed
    events,       \* history: what VO.play did to its sinks, in order
    npcdata,      \* Dialogue.__init__: npcdata['.NPCs'], items in file order
    enemydata,    \* Dialogue.__init__: enemydata['.Enemies']
    lootdata,     \* Dialogue.__init__: lootdata['LootData']
    npc,          \* Dialogue.npc: the data of the NPC registry (items in insertion order)
    enemy,        \* Dialogue.enemy
    loot,         \* Dialogue.loot
    other_registry, \* the data of the Registry passed to copyfrom
    printed,      \* what the constructors (VO, Bank) printed, in order
    dpc           \* Dialogue.__init__: the statement to run next

navVars == <<playing, autoplaying, options, stack, resp, result, pc, exitcode, msg,
             playlog, descent>>

voVars == <<lineset, built>>

playVars == <<vocues, file_map, media_player_list, do_prompt, cuenum, ppc, running, events>>

catVars == <<npcdata, enemydata, lootdata, npc, enemy, loot, other_registry, printed, dpc>>

vars == <<playing, autoplaying, options, stack, resp, result, pc, exitcode, msg,
          playlog, descent, lineset, built,
          vocues, file_map, media_player_list, do_prompt, cuenum, ppc, running, events,
          npcdata, enemydata, lootdata, npc, enemy, loot, other_registry, printed, dpc>>

(***************************************************************************)
(* Bounds of the model                                                     *)
(***************************************************************************)
\* entities held by the NPC registry
NumEntities == 2
\* largest number of line-sets in one category bucket
MaxSiblings == 3
\* numeric inputs range over 0..MaxInput
MaxInput == 4
\* longest list-shape line-set, and number of index keys "0".. of a dict-shape one
MaxLen == 2
\* largest PreLineWait / EndWait value of the raw inputs
MaxWait == 2
\* most cues of a VO that is played
MaxCues == 3

(***************************************************************************)
(* Generic helpers                                                         *)
(***************************************************************************)
Last(s) == s[Len(s)]

Front(s) == SubSeq(s, 1, Len(s) - 1)

\* Python's s[i]: a negative index counts from the end
At(s, i) == IF i < 0 THEN s[Len(s) + i + 1] ELSE s[i + 1]

(***************************************************************************)
(* Python values                                                           *)
(*   JSON values are tagged with their Python type; a str is a sequence of *)
(*   one-character strings; a dict (of a line-set or a cue) is a function  *)
(*   from its keys; numbers are integers.                                  *)
(***************************************************************************)
None == [t |-> "None"]

Str(s) == [t |-> "str", v |-> s]

Num(n) == [t |-> "num", v |-> n]

List(l) == [t |-> "list", v |-> l]

Dict(d) == [t |-> "dict", v |-> d]

\* `key in data` for a dict value
Has(data, key) == key \in DOMAIN data.v

Whitespace == {" ", "\t", "\n"}

DigitChars == <<"0", "1", "2", "3", "4", "5", "6", "7", "8", "9">>

IsDigit(c) == \E i \in 1..10 : DigitChars[i] = c

DigitVal(c) == (CHOOSE i \in 1..10 : DigitChars[i] = c) - 1

\* value of a non-empty sequence of decimal digits
RECURSIVE DigitsVal(_)
DigitsVal(s) ==
    IF Len(s) = 0 THEN 0
    ELSE 10 * DigitsVal(Front(s)) + DigitVal(Last(s))

\* int(s) / float(s) of a stripped numeral: an optional sign and decimal digits.
\* ok = FALSE stands for ValueError.
ParseInt(s) ==
    LET signed == Len(s) > 0 /\ s[1] \in {"-", "+"}
        digits == IF signed THEN Tail(s) ELSE s
    IN  IF Len(digits) > 0 /\ \A i \in 1..Len(digits) : IsDigit(digits[i])
        THEN [ok |-> TRUE,
              val |-> IF signed /\ s[1] = "-" THEN 0 - DigitsVal(digits)
                      ELSE DigitsVal(digits)]
        ELSE [ok |-> FALSE, val |-> 0]

\* float(x) of a JSON number or of a numeral string
Float(x) == IF x.t = "num" THEN x.v ELSE ParseInt(x.v).val

(***************************************************************************)
(* hdialogue.py: Cue                                                       *)
(***************************************************************************)
VOPrefix == <<"/", "V", "O", "/">>

\* VO.vo_re = ^/VO/(?P<cue>\S+)$ applied with re.match: the prefix, then one
\* or more non-whitespace characters up to the end of the string, where `$`
\* also matches just before one trailing newline.
VoReMatch(s) ==
    LET body == IF Len(s) > 0 /\ Last(s) = "\n" THEN Front(s) ELSE s
        rest == SubSeq(body, 5, Len(body))
    IN  IF /\ Len(body) > 4
           /\ SubSeq(body, 1, 4) = VOPrefix
           /\ \A i \in 1..Len(rest) : rest[i] \notin Whitespace
        THEN [ok |-> TRUE, cue |-> rest]
        ELSE [ok |-> FALSE, cue |-> <<>>]

\* Cue.__init__
Cue(cue, text, delay, start_sound, choice) ==
    [cue |-> cue, text |-> text, delay |-> delay,
     start_sound |-> start_sound, choice |-> choice]

\* Cue.from_data without the check of line 93: a malformed reference is
\* kept as the id
CueFromDataLax(data, external_delay, choice) ==
    LET hasCue == Has(data, "Cue")
        m == IF hasCue THEN VoReMatch(data.v["Cue"].v) ELSE [ok |-> FALSE, cue |-> <<>>]
        cue == IF ~hasCue THEN <<>> ELSE IF m.ok THEN m.cue ELSE data.v["Cue"].v
        text == IF Has(data, "Text") THEN data.v["Text"] ELSE None
        delay == IF Has(data, "PreLineWait") THEN Float(data.v["PreLineWait"]) ELSE 0
    IN  IF ~hasCue THEN [ok |-> FALSE, cue |-> None]
        ELSE [ok |-> TRUE, cue |-> Cue(cue, text, delay + external_delay, None, choice)]

\* Cue.from_data with `cue = ''` as the initial value (line 82): a map
\* without the `Cue` field is a cue without audio
CueFromDataAbsentIsEmpty(data, external_delay, choice) ==
    LET hasCue == Has(data, "Cue")
        m == IF hasCue THEN VoReMatch(data.v["Cue"].v) ELSE [ok |-> FALSE, cue |-> <<>>]
        isCue == ~hasCue \/ data.v["Cue"].v = <<>> \/ m.ok
        text == IF Has(data, "Text") THEN data.v["Text"] ELSE None
        delay == IF Has(data, "PreLineWait") THEN Float(data.v["PreLineWait"]) ELSE 0
    IN  IF ~isCue THEN [ok |-> FALSE, cue |-> None]
        ELSE [ok |-> TRUE, cue |-> Cue(m.cue, text, delay + external_delay, None, choice)]

\* Cue.from_data: ok = FALSE stands for NotACueException
CueFromData(data, external_delay, choice) ==
    LET hasCue == Has(data, "Cue")
        m == IF hasCue THEN VoReMatch(data.v["Cue"].v) ELSE [ok |-> FALSE, cue |-> <<>>]
        isCue == hasCue /\ (data.v["Cue"].v = <<>> \/ m.ok)
        cue == IF hasCue /\ data.v["Cue"].v = <<>> THEN <<>> ELSE m.cue
        text == IF Has(data, "Text") THEN data.v["Text"] ELSE None
        delay == IF Has(data, "PreLineWait") THEN Float(data.v["PreLineWait"]) ELSE 0
        sm == IF Has(data, "StartSound") THEN VoReMatch(data.v["StartSound"].v)
              ELSE [ok |-> FALSE, cue |-> <<>>]
        start_sound == IF sm.ok THEN Str(sm.cue) ELSE None
    IN  IF ~isCue THEN [ok |-> FALSE, cue |-> None]
        ELSE [ok |-> TRUE,
              cue |-> Cue(cue, text, delay + external_delay, start_sound, choice)]

(***************************************************************************)
(* hdialogue.py: VO.__init__                                               *)
(*   The result is [ok, cues]; ok = FALSE stands for NoCuesException.      *)
(***************************************************************************)
NoCues == [ok |-> FALSE, cues |-> <<>>]

\* str(num) for the small indexes of a dict-pretending-to-be-a-list
NumStr(num) == ToString(num)

\* WithEndCue without lines 203-206: EndWait is not read
WithEndCueNoWait(data, cues, choice_text) ==
    IF Has(data, "EndCue") /\ data.v["EndCue"].t # "None"
    THEN LET m == VoReMatch(data.v["EndCue"].v)
         IN  IF m.ok
             THEN Append(cues, Cue(m.cue, None, 0, None, choice_text))
             ELSE cues
    ELSE cues

\* lines 200-210: the cues after the EndCue step
WithEndCue(data, cues, choice_text) ==
    IF Has(data, "EndCue") /\ data.v["EndCue"].t # "None"
    THEN LET m == VoReMatch(data.v["EndCue"].v)
             end_delay == IF Has(data, "EndWait") /\ data.v["EndWait"].t # "None"
                          THEN Float(data.v["EndWait"])
                          ELSE 0
         IN  IF m.ok
             THEN Append(cues, Cue(m.cue, None, end_delay, None, choice_text))
             ELSE cues
    ELSE cues

\* Finish without line 236: the first cue keeps its delay
FinishKeepDelay(cues) ==
    IF Len(cues) = 0 THEN NoCues
    ELSE [ok |-> TRUE, cues |-> cues]

\* Finish without lines 232-233: an empty VO is returned
FinishAllowEmpty(cues) ==
    IF Len(cues) = 0 THEN [ok |-> TRUE, cues |-> <<>>]
    ELSE [ok |-> TRUE, cues |-> [cues EXCEPT ![1].delay = 0]]

\* lines 232-236: raise NoCuesException on no cues, else zero the first delay
Finish(cues) ==
    IF Len(cues) = 0 THEN NoCues
    ELSE [ok |-> TRUE, cues |-> [cues EXCEPT ![1].delay = 0]]

RECURSIVE VO(_), SubVOs(_, _), IndexLoop(_, _, _, _, _)

\* a line-set without its EndCue and EndVoiceLines keys
IndexedPart(data) ==
    IF data.t = "dict"
    THEN Dict([k \in DOMAIN data.v \ {"EndCue", "EndVoiceLines"} |-> data.v[k]])
    ELSE data

\* SubVOs building only the indexed part of each sub-line-set
SubVOsIndexedOnly(subs, cues) ==
    IF Len(subs) = 0 THEN cues
    ELSE LET sub == VO(IndexedPart(Head(subs)))
         IN  SubVOs(Tail(subs), IF sub.ok THEN cues \o sub.cues ELSE cues)

\* SubVOs putting the cues of each sub-line-set in front
SubVOsPrepends(subs, cues) ==
    IF Len(subs) = 0 THEN cues
    ELSE LET sub == VO(Head(subs))
         IN  SubVOs(Tail(subs), IF sub.ok THEN sub.cues \o cues ELSE cues)

\* `for x in subs: try: cues.extend(VO(x).cues) except NoCuesException: pass`
\* (lines 184-192 for Choices, lines 223-228 for an EndVoiceLines list)
SubVOs(subs, cues) ==
    IF Len(subs) = 0 THEN cues
    ELSE LET sub == VO(Head(subs))
         IN  SubVOs(Tail(subs), IF sub.ok THEN cues \o sub.cues ELSE cues)

\* IndexLoop without line 196: the initial delay is added to every cue
IndexLoopKeepsDelay(data, num, cues, initial_delay, choice_text) ==
    IF num >= Cardinality(DOMAIN data.v) THEN cues
    ELSE IF ~Has(data, NumStr(num))
    THEN IndexLoop(data, num + 1, cues, initial_delay, choice_text)
    ELSE LET entry == data.v[NumStr(num)]
         IN  IF /\ entry.t = "dict"
                /\ Has(entry, "Choices")
                /\ entry.v["Choices"].t = "list"
             THEN IndexLoop(data, num + 1, SubVOs(entry.v["Choices"].v, cues),
                            initial_delay, choice_text)
             ELSE LET c == CueFromData(entry, initial_delay, choice_text)
                  IN  IF c.ok
                      THEN IndexLoop(data, num + 1, Append(cues, c.cue),
                                     initial_delay, choice_text)
                      ELSE IndexLoop(data, num + 1, cues, initial_delay, choice_text)

\* IndexLoop with `else: break` on a missing index: a gap ends the loop
IndexLoopStopsAtGap(data, num, cues, initial_delay, choice_text) ==
    IF num >= Cardinality(DOMAIN data.v) THEN cues
    ELSE IF ~Has(data, NumStr(num))
    THEN cues
    ELSE LET entry == data.v[NumStr(num)]
         IN  IF /\ entry.t = "dict"
                /\ Has(entry, "Choices")
                /\ entry.v["Choices"].t = "list"
             THEN IndexLoop(data, num + 1, SubVOs(entry.v["Choices"].v, cues),
                            initial_delay, choice_text)
             ELSE LET c == CueFromData(entry, initial_delay, choice_text)
                  IN  IF c.ok
                      THEN IndexLoop(data, num + 1, Append(cues, c.cue), 0, choice_text)
                      ELSE IndexLoop(data, num + 1, cues, initial_delay, choice_text)

\* IndexLoop over range(len(data.keys()) + 1)
IndexLoopOneMore(data, num, cues, initial_delay, choice_text) ==
    IF num >= Cardinality(DOMAIN data.v) + 1 THEN cues
    ELSE IF ~Has(data, NumStr(num))
    THEN IndexLoop(data, num + 1, cues, initial_delay, choice_text)
    ELSE LET entry == data.v[NumStr(num)]
         IN  IF /\ entry.t = "dict"
                /\ Has(entry, "Choices")
                /\ entry.v["Choices"].t = "list"
             THEN IndexLoop(data, num + 1, SubVOs(entry.v["Choices"].v, cues),
                            initial_delay, choice_text)
             ELSE LET c == CueFromData(entry, initial_delay, choice_text)
                  IN  IF c.ok
                      THEN IndexLoop(data, num + 1, Append(cues, c.cue), 0, choice_text)
                      ELSE IndexLoop(data, num + 1, cues, initial_delay, choice_text)

\* lines 178-198: the loop over range(len(data.keys())), from index num on,
\* carrying self.cues and initial_delay; gives the cues after the loop
IndexLoop(data, num, cues, initial_delay, choice_text) ==
    IF num >= Cardinality(DOMAIN data.v) THEN cues
    ELSE IF ~Has(data, NumStr(num))
    THEN IndexLoop(data, num + 1, cues, initial_delay, choice_text)
    ELSE LET entry == data.v[NumStr(num)]
         IN  IF /\ entry.t = "dict"
                /\ Has(entry, "Choices")
                /\ entry.v["Choices"].t = "list"
             THEN IndexLoop(data, num + 1, SubVOs(entry.v["Choices"].v, cues),
                            initial_delay, choice_text)
             ELSE LET c == CueFromData(entry, initial_delay, choice_text)
                  IN  IF c.ok
                      THEN IndexLoop(data, num + 1, Append(cues, c.cue), 0, choice_text)
                      ELSE IndexLoop(data, num + 1, cues, initial_delay, choice_text)

\* lines 214-228: the cues after the EndVoiceLines step
WithEndVoiceLines(data, cues) ==
    IF ~Has(data, "EndVoiceLines") THEN cues
    ELSE LET evl == data.v["EndVoiceLines"]
         IN  IF evl.t = "dict" THEN SubVOs(<<evl>>, cues)
             ELSE IF evl.t = "list" THEN SubVOs(evl.v, cues)
             ELSE cues

\* lines 155-159: the list shape
RECURSIVE ListCues(_)
ListCues(items) ==
    IF Len(items) = 0 THEN <<>>
    ELSE LET c == CueFromData(Head(items), 0, None)
         IN  (IF c.ok THEN <<c.cue>> ELSE <<>>) \o ListCues(Tail(items))

\* DictCues without lines 172-175: ChoiceText is not read
DictCuesNoChoiceText(data) ==
    LET initial_delay == IF Has(data, "PreLineWait")
                         THEN Float(data.v["PreLineWait"]) ELSE 0
        indexed == IndexLoop(data, 0, <<>>, initial_delay, None)
    IN  WithEndVoiceLines(data, WithEndCue(data, indexed, None))

\* lines 160-228: the dict shape
DictCues(data) ==
    LET initial_delay == IF Has(data, "PreLineWait")
                         THEN Float(data.v["PreLineWait"]) ELSE 0
        choice_text == IF Has(data, "ChoiceText") THEN data.v["ChoiceText"] ELSE None
        indexed == IndexLoop(data, 0, <<>>, initial_delay, choice_text)
    IN  WithEndVoiceLines(data, WithEndCue(data, indexed, choice_text))

VO(data) ==
    IF data.t = "list" THEN Finish(ListCues(data.v))
    ELSE IF data.t = "dict" THEN Finish(DictCues(data))
    ELSE Finish(<<>>)

(***************************************************************************)
(* hdialogue.py: what Cue.from_data and VO.__init__ print                  *)
(*   The prints happen whether or not the call then raises.                *)
(***************************************************************************)
\* lines 92, 113 and 210
NoMatch(ref) == [warning |-> "Cue without match", about |-> ref]

\* line 230
UnknownType(t) == [warning |-> "Unknown data type for voiceovers", about |-> <<t>>]

\* str.startswith
StartsWith(s, prefix) == Len(s) >= Len(prefix) /\ SubSeq(s, 1, Len(prefix)) = prefix

\* line 109
SFXPrefix == <<"/", "S", "F", "X", "/">>

\* line 112
MapZoomInShort ==
    <<"/", "L", "e", "f", "t", "o", "v", "e", "r", "s", "/", "W", "o", "r",
      "l", "d", " ", "S", "o", "u", "n", "d", "s", "/", "M", "a", "p", "Z",
      "o", "o", "m", "I", "n", "S", "h", "o", "r", "t">>

\* lines 104-113: the StartSound of a raw cue that is not recognised
StartSoundOut(data) ==
    IF /\ Has(data, "StartSound")
       /\ ~VoReMatch(data.v["StartSound"].v).ok
       /\ ~StartsWith(data.v["StartSound"].v, SFXPrefix)
       /\ data.v["StartSound"].v # MapZoomInShort
    THEN <<NoMatch(data.v["StartSound"].v)>>
    ELSE <<>>

\* Cue.from_data: line 92 and then the raise of line 94, or lines 104-113
CueOut(data) ==
    IF ~Has(data, "Cue") THEN <<>>
    ELSE IF data.v["Cue"].v # <<>> /\ ~VoReMatch(data.v["Cue"].v).ok
    THEN <<NoMatch(data.v["Cue"].v)>>
    ELSE StartSoundOut(data)

\* lines 202-210
EndCueOut(data) ==
    IF /\ Has(data, "EndCue")
       /\ data.v["EndCue"].t # "None"
       /\ ~VoReMatch(data.v["EndCue"].v).ok
    THEN <<NoMatch(data.v["EndCue"].v)>>
    ELSE <<>>

RECURSIVE VOOut(_), SubOut(_), IndexOut(_, _), ListOut(_)

\* the prints of VO(x) for every x of subs (lines 184-192, 223-228)
SubOut(subs) ==
    IF Len(subs) = 0 THEN <<>>
    ELSE VOOut(Head(subs)) \o SubOut(Tail(subs))

\* lines 178-198, from index num on
IndexOut(data, num) ==
    IF num >= Cardinality(DOMAIN data.v) THEN <<>>
    ELSE IF ~Has(data, NumStr(num)) THEN IndexOut(data, num + 1)
    ELSE IF /\ data.v[NumStr(num)].t = "dict"
            /\ Has(data.v[NumStr(num)], "Choices")
            /\ data.v[NumStr(num)].v["Choices"].t = "list"
    THEN SubOut(data.v[NumStr(num)].v["Choices"].v) \o IndexOut(data, num + 1)
    ELSE CueOut(data.v[NumStr(num)]) \o IndexOut(data, num + 1)

\* lines 214-228
EndVoiceLinesOut(data) ==
    IF ~Has(data, "EndVoiceLines") THEN <<>>
    ELSE IF data.v["EndVoiceLines"].t = "dict" THEN VOOut(data.v["EndVoiceLines"])
    ELSE IF data.v["EndVoiceLines"].t = "list" THEN SubOut(data.v["EndVoiceLines"].v)
    ELSE <<>>

\* lines 155-159
ListOut(items) ==
    IF Len(items) = 0 THEN <<>>
    ELSE CueOut(Head(items)) \o ListOut(Tail(items))

\* VO.__init__
VOOut(data) ==
    IF data.t = "list" THEN ListOut(data.v)
    ELSE IF data.t = "dict"
    THEN IndexOut(data, 0) \o EndCueOut(data) \o EndVoiceLinesOut(data)
    ELSE <<UnknownType(data.t)>>

(***************************************************************************)
(* Raw line-sets the builder is run on                                     *)
(***************************************************************************)
EmptyDict == [k \in {} |-> None]

\* a dict with key k bound to each of vals, or without the key
Optional(k, vals) == {EmptyDict} \cup {k :> x : x \in vals}

Ref(id) == Str(VOPrefix \o id)

\* the `Cue` field of a raw cue map: absent, a good reference, the empty
\* string, and malformed ones (no prefix, nothing after the prefix, a space
\* in the identifier)
RawRefs ==
    Optional("Cue", {Ref(<<"A">>), Str(<<>>), Str(<<"B">>), Str(VOPrefix),
                     Ref(<<"a", " ", "b">>)})

\* the other fields of a raw cue map
RawExtras ==
    {EmptyDict,
     "Text" :> Str(<<"t">>),
     "PreLineWait" :> Num(MaxWait),
     "PreLineWait" :> Str(<<"1">>) @@ "StartSound" :> Ref(<<"S">>) @@ "Text" :> Str(<<"t">>),
     "PreLineWait" :> Num(0 - 1) @@ "StartSound" :> Str(<<"/", "S", "F", "X", "/", "x">>)}

RawCues == {Dict(c @@ x) : c \in RawRefs, x \in RawExtras}

\* all sequences over S of length at most n
RECURSIVE SeqsUpTo(_, _)
SeqsUpTo(S, n) ==
    IF n = 0 THEN {<<>>}
    ELSE LET shorter == SeqsUpTo(S, n - 1)
         IN  shorter \cup {Append(q, x) : q \in shorter, x \in S}

\* what an index key may hold: cue maps, and maps with Choices
IndexedEntries ==
    {Dict("Cue" :> Ref(<<"A">>)),
     Dict("Cue" :> Str(<<>>) @@ "Text" :> Str(<<"t">>)),
     Dict("Text" :> Str(<<"t">>)),
     Dict("Cue" :> Ref(<<"B">>) @@ "PreLineWait" :> Num(1)),
     Dict("Choices" :> List(<<List(<<>>),
                              Dict("0" :> Dict("Cue" :> Ref(<<"E">>) @@ "PreLineWait" :> Num(1))
                                   @@ "PreLineWait" :> Num(MaxWait)
                                   @@ "ChoiceText" :> Str(<<"M">>)
                                   @@ "EndCue" :> Ref(<<"F">>)
                                   @@ "EndWait" :> Num(1)
                                   @@ "EndVoiceLines" :>
                                          Dict("0" :> Dict("Cue" :> Ref(<<"G">>)))),
                              List(<<Dict("Cue" :> Ref(<<"H">>) @@ "PreLineWait" :> Num(1))>>)>>)),
     Dict("Cue" :> Ref(<<"N">>) @@ "PreLineWait" :> Num(0 - 1)),
     Dict("Choices" :> List(<<Dict("0" :> Dict("Text" :> Str(<<"t">>)))>>)),
     Dict("Choices" :> Str(<<"x">>))}

\* the dicts over the index keys "0" .. str(n-1), each present or absent
RECURSIVE IndexedDicts(_)
IndexedDicts(n) ==
    IF n = 0 THEN {EmptyDict}
    ELSE {d @@ e : d \in IndexedDicts(n - 1),
                   e \in Optional(NumStr(n - 1), IndexedEntries)}

DictLineSets ==
    {Dict(i @@ w @@ c @@ ec @@ ew @@ ev) :
        i \in IndexedDicts(MaxLen),
        w \in Optional("PreLineWait", {Num(MaxWait)}),
        c \in Optional("ChoiceText", {Str(<<"L">>)}),
        ec \in Optional("EndCue", {None, Ref(<<"Z">>), Str(<<"Z">>)}),
        ew \in Optional("EndWait", {None, Num(MaxWait), Num(0 - 1)}),
        ev \in Optional("EndVoiceLines",
                        {Dict("0" :> Dict("Cue" :> Ref(<<"V">>) @@ "PreLineWait" :> Num(1))),
                         List(<<List(<<>>), Dict("EndCue" :> Ref(<<"W">>) @@ "EndWait" :> Num(1))>>),
                         List(<<List(<<Dict("Cue" :> Ref(<<"X">>))>>),
                                Dict("0" :> Dict("Cue" :> Ref(<<"Y">>)))>>),
                         List(<<>>)})}

ListLineSets == {List(q) : q \in SeqsUpTo(RawCues, MaxLen)}

\* the line-set of the documented example: an initial wait of 2 on Greet
\* and Bye, Bye with its own wait of 1
GreetBye ==
    Dict("PreLineWait" :> Num(2)
         @@ "0" :> Dict("Cue" :> Ref(<<"G", "r", "e", "e", "t">>))
         @@ "1" :> Dict("Cue" :> Ref(<<"B", "y", "e">>) @@ "PreLineWait" :> Num(1)))

\* neither a list nor a dict
OtherLineSets == {Str(<<"x">>), Num(1), None}

LineSets == ListLineSets \cup DictLineSets \cup OtherLineSets \cup {GreetBye}

(***************************************************************************)
(* The builder as a state machine: one call of VO(data, ...)               *)
(***************************************************************************)
New == [state |-> "new", cues |-> <<>>]

\* VO.__init__ from entry to return or raise
Construct ==
    /\ built.state = "new"
    /\ LET r == VO(lineset)
       IN  built' = IF r.ok THEN [state |-> "built", cues |-> r.cues]
                    ELSE [state |-> "NoCuesException", cues |-> <<>>]
    /\ printed' = printed \o VOOut(lineset)
    /\ UNCHANGED <<lineset, navVars, playVars,
                   npcdata, enemydata, lootdata, npc, enemy, loot, other_registry, dpc>>

(***************************************************************************)
(* The catalog the session navigates (Dialogue.npc / .enemy / .loot)       *)
(*   A Registry's data and a category bucket are Python dicts whose order  *)
(*   matters (insertion order): sequences of [key, value] items.           *)
(*   The session holds references to the catalog's objects, never copies:  *)
(*   a reference is the path of the object in the catalog, <<registry>>,   *)
(*   <<registry, i>> for its i-th bank, <<registry, i, g>> for that bank's *)
(*   g-th category and <<registry, i, g, j>> for the j-th VO of it.        *)
(***************************************************************************)
\* str(n) as characters, 0 <= n < 100
NumChars(n) ==
    IF n < 10 THEN <<DigitChars[n + 1]>>
    ELSE <<DigitChars[(n \div 10) + 1], DigitChars[(n % 10) + 1]>>

\* a < b for two strings of digits, as Python compares str (by code point)
RECURSIVE StrLess(_, _)
StrLess(a, b) ==
    IF Len(b) = 0 THEN FALSE
    ELSE IF Len(a) = 0 THEN TRUE
    ELSE IF DigitVal(a[1]) # DigitVal(b[1]) THEN DigitVal(a[1]) < DigitVal(b[1])
    ELSE StrLess(Tail(a), Tail(b))

\* a built VO object: its label and cues
NewVO(raw, label) == [label |-> label, cues |-> VO(raw).cues]

\* VO(...) returns (TRUE) or raises NoCuesException (FALSE)
Builds(raw) == VO(raw).ok

\* a JSON object whose key order the code depends on (it iterates .items()):
\* type dict, its items in file order
Object(items) == [t |-> "dict", items |-> items]

\* key in d, for a dict given as its items
HasKey(items, k) == \E i \in 1..Len(items) : items[i].key = k

\* d[k], for a dict given as its items
Get(items, k) == items[CHOOSE i \in 1..Len(items) : items[i].key = k].value

\* d[k] = v: replaces the value of an existing key in place, else appends
RECURSIVE SetItem(_, _, _)
SetItem(items, k, v) ==
    IF Len(items) = 0 THEN <<[key |-> k, value |-> v]>>
    ELSE IF items[1].key = k THEN <<[key |-> k, value |-> v]>> \o Tail(items)
    ELSE <<items[1]>> \o SetItem(Tail(items), k, v)

\* the one label whose duplication is known and not reported (line 290)
HermesPostEnding01 ==
    <<"H", "e", "r", "m", "e", "s", "P", "o", "s", "t",
      "E", "n", "d", "i", "n", "g", "0", "1">>

\* line 291
Warning(label) == [warning |-> "found in more than one category", about |-> label]

\* b after the constructor of a line-set printed `out`
Said(b, out) == [b EXCEPT !.out = @ \o out]

\* Add with the else branch of line 292 taken always: the later VO replaces
AddReplaces(b, label, vo) ==
    [category |-> SetItem(b.category, label, vo),
     combined |-> SetItem(b.combined, label, vo),
     out |-> IF HasKey(b.combined, label) /\ label # HermesPostEnding01
             THEN Append(b.out, Warning(label))
             ELSE b.out]

\* lines 283-293 for a line-set that built: b is [category, combined, out]
Add(b, label, vo) ==
    [category |-> SetItem(b.category, label, vo),
     combined |-> IF HasKey(b.combined, label) THEN b.combined
                  ELSE SetItem(b.combined, label, vo),
     out |-> IF HasKey(b.combined, label) /\ label # HermesPostEnding01
             THEN Append(b.out, Warning(label))
             ELSE b.out]

RECURSIVE CategoryLoop(_, _, _)

\* CategoryLoop with the try/except of lines 282-295 around the whole loop:
\* the first failing line-set ends the category
CategoryLoopStopsAtFailure(items, j, b) ==
    IF j > Len(items) THEN b
    ELSE IF Builds(items[j].value)
    THEN CategoryLoop(items, j + 1,
                      Add(Said(b, VOOut(items[j].value)), items[j].key,
                          NewVO(items[j].value, items[j].key)))
    ELSE Said(b, VOOut(items[j].value))

\* lines 281-295: the line-sets of one category, from the j-th on
CategoryLoop(items, j, b) ==
    IF j > Len(items) THEN b
    ELSE IF Builds(items[j].value)
    THEN CategoryLoop(items, j + 1,
                      Add(Said(b, VOOut(items[j].value)), items[j].key,
                          NewVO(items[j].value, items[j].key)))
    ELSE CategoryLoop(items, j + 1, Said(b, VOOut(items[j].value)))

\* the group `desc` with its bucket filled: b is [groups, combined, out]
WithCategory(b, desc, c) ==
    [groups |-> Append(b.groups, [key |-> desc.key, name |-> desc.name,
                                  category |-> c.category]),
     combined |-> c.combined,
     out |-> c.out]

\* line 280
IsCategory(data, key) == Has(data, key) /\ data.v[key].t = "dict"

\* lines 279-295: the groups from the g-th on
RECURSIVE GroupLoop(_, _, _, _)
GroupLoop(descs, data, g, b) ==
    IF g > Len(descs) THEN b
    ELSE IF IsCategory(data, descs[g].key)
    THEN GroupLoop(descs, data, g + 1,
                   WithCategory(b, descs[g],
                                CategoryLoop(data.v[descs[g].key].items, 1,
                                             [category |-> <<>>,
                                              combined |-> b.combined,
                                              out |-> b.out])))
    ELSE GroupLoop(descs, data, g + 1,
                   WithCategory(b, descs[g],
                                [category |-> <<>>, combined |-> b.combined,
                                 out |-> b.out]))

\* Raised looking at the first bucket only
RaisedFirstBucket(name, b) ==
    [ok |-> Len(b.groups[1].category) > 0,
     bank |-> [name |-> name, groups |-> b.groups, combined |-> b.combined],
     out |-> b.out]

\* lines 297-298: NoVOsException (ok = FALSE) when every bucket is empty
Raised(name, b) ==
    [ok |-> \E g \in 1..Len(b.groups) : Len(b.groups[g].category) > 0,
     bank |-> [name |-> name, groups |-> b.groups, combined |-> b.combined],
     out |-> b.out]

\* Bank.__init__ with self.groups = descs
Bank(descs, name, data) ==
    Raised(name, GroupLoop(descs, data, 1,
                           [groups |-> <<>>, combined |-> <<>>, out |-> <<>>]))

\* NPCBank.groups (lines 317-321)
NPCBank ==
    <<[key |-> "InteractTextLineSets", name |-> "Interacts"],
      [key |-> "RepeatableTextLineSets", name |-> "Repeatables"],
      [key |-> "GiftTextLineSets", name |-> "Gifts"]>>

\* EnemyBank.groups (lines 332-338)
EnemyBank ==
    <<[key |-> "BossPresentationIntroTextLineSets", name |-> "Intros"],
      [key |-> "BossPresentationTextLineSets", name |-> "Basic Conversations"],
      [key |-> "BossPresentationPriorityIntroTextLineSets", name |-> "Priorities"],
      [key |-> "BossPresentationSuperPriorityIntroTextLineSets",
       name |-> "Super Priorities"],
      [key |-> "BossPresentationRepeatableTextLineSets", name |-> "Repeatables"]>>

\* LootBank.groups (lines 352-361)
LootBank ==
    <<[key |-> "PickupTextLineSets", name |-> "Pickups"],
      [key |-> "DuoPickupTextLineSets", name |-> "Duos"],
      [key |-> "BoughtTextLines", name |-> "Bought"],
      [key |-> "GiftTextLineSets", name |-> "Gifts"],
      [key |-> "PriorityPickupTextLineSets", name |-> "Priorities"],
      [key |-> "SuperPriorityPickupTextLineSets", name |-> "Super Priorities"],
      [key |-> "RejectionTextLines", name |-> "Rejections"],
      [key |-> "MakeUpTextLines", name |-> "Makeups"]>>

\* lines 370-375 for one section: r is [data, out]
Register(r, section_name, section) ==
    [data |-> IF section.ok THEN SetItem(r.data, section_name, section.bank)
              ELSE r.data,
     out |-> r.out \o section.out]

\* lines 369-375: the sections from the i-th on
RECURSIVE SectionLoop(_, _, _, _)
SectionLoop(data_class, raw_data, i, r) ==
    IF i > Len(raw_data) THEN r
    ELSE SectionLoop(data_class, raw_data, i + 1,
                     Register(r, raw_data[i].key,
                              Bank(data_class, raw_data[i].key, raw_data[i].value)))

\* Registry.__init__: self.data, and what the banks printed
Registry(data_class, raw_data) ==
    SectionLoop(data_class, raw_data, 1, [data |-> <<>>, out |-> <<>>])

\* Copyfrom that leaves the ids self already holds (setdefault)
RECURSIVE CopyfromMissingOnly(_, _)
CopyfromMissingOnly(data, other) ==
    IF Len(other) = 0 THEN data
    ELSE CopyfromMissingOnly(IF HasKey(data, other[1].key) THEN data
                             ELSE SetItem(data, other[1].key, other[1].value),
                             Tail(other))

\* Copyfrom that copies nothing
CopyfromNothing(data, other) == data

\* Registry.copyfrom: self.data afterwards
RECURSIVE Copyfrom(_, _)
Copyfrom(data, other) ==
    IF Len(other) = 0 THEN data
    ELSE Copyfrom(SetItem(data, other[1].key, other[1].value), Tail(other))

(***************************************************************************)
(* The raw data of the session that is navigated                           *)
(***************************************************************************)
\* a raw category of n line-sets for entity `name`, group number g
Bucket(name, g, n) ==
    Object([j \in 1..n |->
        LET label == name \o <<"g">> \o NumChars(g) \o <<"v">> \o NumChars(j)
        IN  [key |-> label,
             value |-> List(<<Dict("Cue" :> Ref(label) @@ "PreLineWait" :> Num(j))>>)]])

\* a raw category whose only line-set has no cue
Silent(name) == Object(<<[key |-> name \o <<"s">>, value |-> List(<<>>)]>>)

\* the section of an NPC with buckets of the given sizes
NPCSection(name, sizes) ==
    Dict("InteractTextLineSets" :> Bucket(name, 1, sizes[1])
         @@ "RepeatableTextLineSets" :> Bucket(name, 2, sizes[2])
         @@ "GiftTextLineSets" :> Bucket(name, 3, sizes[3]))

\* the section of an enemy with buckets of the given sizes
EnemySection(name, sizes) ==
    Dict("BossPresentationIntroTextLineSets" :> Bucket(name, 1, sizes[1])
         @@ "BossPresentationTextLineSets" :> Bucket(name, 2, sizes[2])
         @@ "BossPresentationPriorityIntroTextLineSets" :> Bucket(name, 3, sizes[3])
         @@ "BossPresentationSuperPriorityIntroTextLineSets" :> Bucket(name, 4, sizes[4])
         @@ "BossPresentationRepeatableTextLineSets" :> Bucket(name, 5, sizes[5]))

\* npcdata['.NPCs']: NumEntities sections that yield a bank, in numeric order
\* of their names (6, 12, 18, ...), which is not their order as strings, with
\* bucket sizes over 0..MaxSiblings; then a section without any line-set that
\* has a cue
NpcData ==
    [e \in 1..NumEntities |->
        [key |-> NumChars(6 * e),
         value |-> NPCSection(NumChars(6 * e),
                              [g \in 1..3 |-> (e + g) % (MaxSiblings + 1)])]]
    \o <<[key |-> <<"9">>,
          value |-> Dict("InteractTextLineSets" :> Silent(<<"9">>)
                         @@ "GiftTextLineSets" :> None)]>>

\* enemydata['.Enemies']: one section with two non-empty buckets
EnemyData ==
    <<[key |-> <<"7">>, value |-> EnemySection(<<"7">>, <<1, 0, 0, 2, 0>>)]>>

\* lootdata['LootData']: no section has a line-set
LootData == <<[key |-> <<"8">>, value |-> Dict(EmptyDict)]>>

\* self.npc after lines 414 and 422
NpcRegistry ==
    Copyfrom(Registry(NPCBank, NpcData).data, Registry(NPCBank, EnemyData).data)

\* self.enemy after lines 419 and 425
EnemyRegistry ==
    Copyfrom(Registry(EnemyBank, EnemyData).data, Registry(EnemyBank, NpcData).data)

\* self.loot after line 430
LootRegistry == Registry(LootBank, LootData).data

\* Dialogue: the three registries (BaseApp exposes them as self.npc, ...)
Dialogue == [npc |-> NpcRegistry, enemy |-> EnemyRegistry, loot |-> LootRegistry]

\* the object a reference points to: a registry's i-th value, a bank's g-th
\* category (the second step of a path), a category's j-th value
RECURSIVE Walk(_, _, _)
Walk(obj, path, step) ==
    IF path = <<>> THEN obj
    ELSE Walk(IF step = 2 THEN obj.groups[path[1]].category ELSE obj[path[1]].value,
              Tail(path), step + 1)

\* BaseApp: self.npc, self.enemy, self.loot
Registries == [npc |-> npc, enemy |-> enemy, loot |-> loot]

Deref(ref) == Walk(Registries[ref[1]], Tail(ref), 1)

\* dict.items() of the dict `items` found at ref, each value given by
\* reference
ItemsAt(items, ref) ==
    [i \in 1..Len(items) |-> [key |-> items[i].key, value |-> ref \o <<i>>]]

Items(ref) == ItemsAt(Deref(ref), ref)

(***************************************************************************)
(* play_interactive.py: Breadcrumb, Option, Result                         *)
(***************************************************************************)
\* Breadcrumb keeping the chosen option alone as its sibling list
BreadcrumbAlone(option, prev_options) == [option |-> option, prev_options |-> <<option>>]

Breadcrumb(option, prev_options) == [option |-> option, prev_options |-> prev_options]

\* Option.__init__ with breadcrumb_label given
OptionL(label, optdata, pos, breadcrumb_label) ==
    [label |-> label, data |-> optdata, pos |-> pos, breadcrumb_label |-> breadcrumb_label]

\* Option.__init__ with breadcrumb_label=None
Option(label, optdata, pos) == OptionL(label, optdata, pos, label)

Top == stack[Len(stack)]

\* sorted(items): insertion sort by key
RECURSIVE InsertSorted(_, _)
InsertSorted(sorted, item) ==
    IF Len(sorted) = 0 THEN <<item>>
    ELSE IF StrLess(item.key, sorted[1].key) THEN <<item>> \o sorted
    ELSE <<sorted[1]>> \o InsertSorted(Tail(sorted), item)

RECURSIVE Sorted(_)
Sorted(items) ==
    IF Len(items) = 0 THEN <<>>
    ELSE InsertSorted(Sorted(Front(items)), Last(items))

RECURSIVE GroupOptions(_, _, _, _)

\* GroupOptions with num counting the empty buckets too (enumerate)
GroupOptionsWithGaps(groups, ref, g, num) ==
    IF g > Len(groups) THEN <<>>
    ELSE IF Len(groups[g].category) > 0
    THEN <<Option(groups[g].name, ref \o <<g>>, num)>>
         \o GroupOptions(groups, ref, g + 1, num + 1)
    ELSE GroupOptions(groups, ref, g + 1, num + 1)

\* lines 327-332: one Option per group (from the g-th on) of the bank at
\* ref whose category is not empty, numbered consecutively from num
GroupOptions(groups, ref, g, num) ==
    IF g > Len(groups) THEN <<>>
    ELSE IF Len(groups[g].category) > 0
    THEN <<Option(groups[g].name, ref \o <<g>>, num)>>
         \o GroupOptions(groups, ref, g + 1, num + 1)
    ELSE GroupOptions(groups, ref, g + 1, num)

\* lines 321-322: one Option per (name, bank), numbered from 0
BankOptions(items) ==
    [i \in 1..Len(items) |-> Option(items[i].key, items[i].value, i - 1)]

\* lines 337-343: one Option per (key, cue), its breadcrumb label telling
\* its place among the total
CueOptions(items) ==
    [i \in 1..Len(items) |->
        OptionL(items[i].key, items[i].value, i - 1,
                [num |-> i, total |-> Len(items), key |-> items[i].key])]

\* lines 312-346: the option list built for a stack of depth 0..4
NewOptions(stk) ==
    CASE Len(stk) = 0 ->
            <<Option("NPCs", <<"npc">>, 0),
              Option("Enemies", <<"enemy">>, 1),
              Option("Loot", <<"loot">>, 2)>>
      [] Len(stk) = 1 -> BankOptions(Sorted(Items(Last(stk).option.data)))
      [] Len(stk) = 2 ->
            GroupOptions(Deref(Last(stk).option.data).groups, Last(stk).option.data, 1, 0)
      [] Len(stk) = 3 -> CueOptions(Items(Last(stk).option.data))
      [] OTHER -> <<>>

(***************************************************************************)
(* What the user may type at input(...)                                    *)
(***************************************************************************)
\* str.strip(): drop leading and trailing whitespace
RECURSIVE LStrip(_)
LStrip(s) == IF Len(s) > 0 /\ s[1] \in Whitespace THEN LStrip(Tail(s)) ELSE s

RECURSIVE RStrip(_)
RStrip(s) == IF Len(s) > 0 /\ Last(s) \in Whitespace THEN RStrip(Front(s)) ELSE s

Strip(s) == RStrip(LStrip(s))

\* str.lower() on the letters the inputs use
LowerChar(c) ==
    CASE c = "A" -> "a" [] c = "B" -> "b" [] c = "N" -> "n" [] c = "P" -> "p"
      [] c = "Q" -> "q" [] c = "R" -> "r" [] c = "X" -> "x" [] OTHER -> c

Lower(s) == [i \in 1..Len(s) |-> LowerChar(s[i])]

Inputs ==
    {<<"q">>, <<"b">>, <<"r">>, <<"p">>, <<"n">>, <<"a">>}
    \cup {<<"Q">>, <<" ", "B">>, <<"R", " ">>, <<"P">>, <<"\t", "N", "\n">>, <<"A">>}
    \cup {<<>>, <<"x">>, <<"b", "b">>, <<"1", "x">>, <<"-", "1">>}
    \cup {NumChars(k) : k \in 0..MaxInput}
    \cup {<<" ", "2">>, <<"+", "1">>, <<"0", "1">>}

(***************************************************************************)
(* play_interactive.py: App.process_options                                *)
(***************************************************************************)
\* NumOptions without lines 181-182: always the length of the option list
NumOptionsListed == Len(options.v)

\* lines 181-184
NumOptions ==
    IF Len(stack) = 4 THEN Len(Top.prev_options) ELSE Len(options.v)

\* lines 185-199 (playing is the argument `playing`, always run's `playing`)
\* replay offered at every depth
AllowReplayAlways == TRUE

AllowReplay == playing

CurPos == Top.option.pos

PlaylistLen == Len(Top.prev_options)

\* line 193 with >= for >
AllowPrevOffByOne == playing /\ CurPos >= 0

AllowPrev == playing /\ CurPos > 0

AllowNext == playing /\ CurPos < PlaylistLen - 1

\* AllowAutoplay without lines 195-197
AllowAutoplayAtListOnly == Len(stack) = 3

AllowAutoplay == AllowNext \/ Len(stack) = 3

\* line 277 with 0 for 1
InRangeFromZero(intval) == ~(intval < 0 \/ intval > NumOptions)

\* line 277: the number is one of the options
InRange(intval) == ~(intval < 1 \/ intval > NumOptions)

\* lines 248-288: which branch of the if/elif chain takes the response r
Branch(r) ==
    IF r = <<"q">> THEN "quit"
    ELSE IF Len(stack) > 0 /\ r = <<"b">> THEN "back"
    ELSE IF AllowReplay /\ r = <<"r">> THEN "replay"
    ELSE IF AllowPrev /\ r = <<"p">> THEN "prev"
    ELSE IF AllowNext /\ r = <<"n">> THEN "next"
    ELSE IF AllowAutoplay /\ r = <<"a">> THEN "autoplay"
    ELSE IF NumOptions > 0
    THEN IF ~ParseInt(r).ok THEN "unknown"
         ELSE IF ~InRange(ParseInt(r).val) THEN "range"
         ELSE "number"
    ELSE "unknown"

\* the session blocks in input() of process_options and reads `raw`
Reads(raw, branch) ==
    /\ pc = "prompt"
    /\ Branch(Lower(Strip(raw))) = branch
    /\ resp' = Lower(Strip(raw))

\* process_options returned: App.run goes to the top of its loop
Returned(res) ==
    /\ result' = res
    /\ pc' = "top"
    /\ msg' = <<>>
    /\ playlog' = <<>>
    /\ UNCHANGED <<exitcode, voVars, playVars, catVars>>

PLAY == [t |-> "Result", v |-> "PLAY"]

AUTOPLAY == [t |-> "Result", v |-> "AUTOPLAY"]

AUTOPLAY_ALL == [t |-> "Result", v |-> "AUTOPLAY_ALL"]

\* an uncaught exception ends the process
Raise(exc) ==
    /\ pc' = "exit"
    /\ exitcode' = 1
    /\ msg' = <<exc>>
    /\ UNCHANGED <<playing, autoplaying, options, stack, result, playlog, descent, voVars, playVars, catVars>>

\* Quit with `return` for sys.exit(0): the loop goes on
QuitReturns ==
    \E raw \in Inputs :
        /\ Reads(raw, "quit")
        /\ Returned(None)
        /\ UNCHANGED <<playing, autoplaying, options, stack, descent>>

\* lines 248-249
Quit ==
    \E raw \in Inputs :
        /\ Reads(raw, "quit")
        /\ pc' = "exit"
        /\ exitcode' = 0
        /\ msg' = <<>>
        /\ UNCHANGED <<playing, autoplaying, options, stack, result, playlog, descent, voVars, playVars, catVars>>

\* Back with line 385 as `options = None`: the list is recomputed
BackRecomputes ==
    \E raw \in Inputs :
        /\ Reads(raw, "back")
        /\ stack' = Front(stack)
        /\ descent' = Front(descent)
        /\ options' = None
        /\ playing' = FALSE
        /\ Returned([t |-> "Breadcrumb", v |-> Top])
        /\ UNCHANGED autoplaying

\* Back without line 386: `playing` stays as it was
BackKeepsPlaying ==
    \E raw \in Inputs :
        /\ Reads(raw, "back")
        /\ stack' = Front(stack)
        /\ descent' = Front(descent)
        /\ options' = List(Top.prev_options)
        /\ Returned([t |-> "Breadcrumb", v |-> Top])
        /\ UNCHANGED <<playing, autoplaying>>

\* lines 250-251, then run lines 383-386
Back ==
    \E raw \in Inputs :
        /\ Reads(raw, "back")
        /\ stack' = Front(stack)
        /\ descent' = Front(descent)
        /\ options' = List(Top.prev_options)
        /\ playing' = FALSE
        /\ Returned([t |-> "Breadcrumb", v |-> Top])
        /\ UNCHANGED autoplaying

\* lines 252-253, then run lines 390-392
Replay ==
    \E raw \in Inputs :
        /\ Reads(raw, "replay")
        /\ Returned(PLAY)
        /\ UNCHANGED <<playing, autoplaying, options, stack, descent>>

\* lines 254-256, then run lines 390-392
Previous ==
    \E raw \in Inputs :
        /\ Reads(raw, "prev")
        /\ stack' = [stack EXCEPT ![Len(stack)].option = At(Top.prev_options, CurPos - 1)]
        /\ Returned(PLAY)
        /\ UNCHANGED <<playing, autoplaying, options, descent>>

\* lines 257-259, then run lines 390-392
NextSibling ==
    \E raw \in Inputs :
        /\ Reads(raw, "next")
        /\ stack' = [stack EXCEPT ![Len(stack)].option = At(Top.prev_options, CurPos + 1)]
        /\ Returned(PLAY)
        /\ UNCHANGED <<playing, autoplaying, options, descent>>

\* lines 260-270, then run lines 393-397
Autoplay ==
    \E raw \in Inputs :
        /\ Reads(raw, "autoplay")
        /\ IF Len(stack) = 3
           THEN IF Len(options.v) = 0
                THEN Raise("IndexError")
                ELSE /\ stack' = Append(stack, Breadcrumb(At(options.v, 0), options.v))
                     /\ descent' = Append(descent, [stack |-> stack, options |-> options.v])
                     /\ autoplaying' = TRUE
                     /\ options' = None
                     /\ Returned(AUTOPLAY_ALL)
                     /\ UNCHANGED playing
           ELSE /\ stack' = [stack EXCEPT
                                ![Len(stack)].option = At(Top.prev_options, CurPos + 1)]
                /\ autoplaying' = TRUE
                /\ Returned(AUTOPLAY)
                /\ UNCHANGED <<playing, options, descent>>

\* line 280 with 5 for 4
AtVoiceoverOffByOne == Len(stack) = 5

\* line 280: at a voiceover a number re-selects among its siblings
AtVoiceover == Len(stack) = 4

\* lines 271-285 with a number in range, then run lines 387-392
Choose ==
    \E raw \in Inputs :
        /\ Reads(raw, "number")
        /\ LET intval == ParseInt(Lower(Strip(raw))).val
           IN  IF AtVoiceover
               THEN /\ stack' = [stack EXCEPT
                                    ![Len(stack)].option = At(Top.prev_options, intval - 1)]
                    /\ Returned(PLAY)
                    /\ UNCHANGED <<playing, autoplaying, options, descent>>
               ELSE IF intval > Len(options.v)
               THEN Raise("IndexError")
               ELSE /\ stack' = Append(stack,
                                       Breadcrumb(At(options.v, intval - 1), options.v))
                    /\ descent' = Append(descent, [stack |-> stack, options |-> options.v])
                    /\ options' = None
                    /\ Returned([t |-> "Option", v |-> At(options.v, intval - 1)])
                    /\ UNCHANGED <<playing, autoplaying>>

\* lines 272-279 and 286-288: self.error(...) and `continue` to the same prompt
Reject ==
    \E raw \in Inputs :
        /\ \/ /\ Reads(raw, "unknown")
              /\ msg' = <<"Unknown input, try again!">>
           \/ /\ Reads(raw, "range")
              /\ msg' = <<"Number must be from 1 to {num_options}", NumOptions>>
        /\ UNCHANGED <<playing, autoplaying, options, stack, result, pc, exitcode,
                       playlog, descent, voVars, playVars, catVars>>

(***************************************************************************)
(* play_interactive.py: App.run                                            *)
(***************************************************************************)
\* line 359: more siblings remain after the selected one
MoreSiblings == Top.option.pos < Len(Top.prev_options) - 1

\* AutoplayDone without lines 374-377: the session stays on the last VO
AutoplayDoneStays ==
    /\ autoplaying' = FALSE
    /\ options' = List(<<>>)
    /\ playing' = TRUE
    /\ pc' = "prompt"
    /\ UNCHANGED <<stack, descent>>

\* lines 370-377: autoplay ran out of siblings; pop to the line-set list
AutoplayDone ==
    /\ autoplaying' = FALSE
    /\ options' = List(Top.prev_options)
    /\ stack' = Front(stack)
    /\ descent' = Front(descent)
    /\ playing' = FALSE
    /\ pc' = "top"

\* PlayingAfter without line 345
PlayingAfterUnset(fresh) == playing

\* lines 344-345: `playing` after the options were refreshed (fresh) or not
PlayingAfter(fresh) == IF fresh /\ Len(stack) = 4 THEN TRUE ELSE playing

\* VO.play with every cue dropped from self.cues once it was played
playConsumes(registry, name, played) ==
    IF Len(played) > 0 /\ played[1][1] = name
    THEN [registry EXCEPT ![played[1][2]].value.groups[played[1][3]]
                               .category[played[1][4]].value.cues = <<>>]
    ELSE registry

\* line 355, stack[-1].option.data.play(): the registry `name` after the VOs
\* of `played` (references, none or one) were played. VO.play reads
\* self.cues, self.file_map and self.config and assigns to none of them.
play(registry, name, played) == registry

\* lines 301-380: one pass of the loop from its top to the point where it
\* blocks (input() in process_options, inputimeout), continues or exits
LoopPass ==
    /\ pc = "top"
    /\ LET fresh == options.t = "None"
           \* lines 309-350
           unknownState == fresh /\ Len(stack) > 4
           options1 == IF fresh THEN List(NewOptions(stack)) ELSE options
           playing1 == PlayingAfter(fresh)
           \* lines 353-355
           played == IF playing1 THEN <<Top.option.data>> ELSE <<>>
       IN  IF unknownState
           THEN /\ pc' = "exit"
                /\ exitcode' = 1
                /\ msg' = <<"Unknown state, exiting!">>
                /\ UNCHANGED <<playing, autoplaying, options, stack, playlog, descent,
                               npc, enemy, loot>>
           ELSE IF (playing1 \/ autoplaying) /\ Len(stack) = 0
           THEN /\ Raise("IndexError")
           ELSE /\ playlog' = playlog \o played
                /\ npc' = play(npc, "npc", played)
                /\ enemy' = play(enemy, "enemy", played)
                /\ loot' = play(loot, "loot", played)
                /\ msg' = <<>>
                /\ exitcode' = exitcode
                /\ IF autoplaying
                   THEN IF MoreSiblings
                        THEN \* line 363: wait for input or the timeout
                             /\ pc' = "wait"
                             /\ options' = options1
                             /\ playing' = playing1
                             /\ UNCHANGED <<autoplaying, stack, descent>>
                        ELSE AutoplayDone
                   ELSE \* line 380: process_options blocks in input()
                        /\ pc' = "prompt"
                        /\ options' = options1
                        /\ playing' = playing1
                        /\ UNCHANGED <<autoplaying, stack, descent>>
    /\ UNCHANGED <<resp, result, voVars, playVars,
                   npcdata, enemydata, lootdata, other_registry, printed, dpc>>

\* StopAutoplay without line 364
StopAutoplayKeepsMode ==
    /\ pc = "wait"
    /\ \E raw \in Inputs : result' = Str(raw)
    /\ pc' = "prompt"
    /\ UNCHANGED <<playing, autoplaying, options, stack, resp, exitcode, msg, playlog,
                   descent, voVars, playVars, catVars>>

\* lines 363-364: a line of input arrives within the timeout and is assigned
\* to `result`; the loop pass goes on to process_options (line 380)
StopAutoplay ==
    /\ pc = "wait"
    /\ \E raw \in Inputs : result' = Str(raw)
    /\ autoplaying' = FALSE
    /\ pc' = "prompt"
    /\ UNCHANGED <<playing, options, stack, resp, exitcode, msg, playlog,
                   descent, voVars, playVars, catVars>>

\* lines 365-368: inputimeout.TimeoutOccurred
TimeoutOccurred ==
    /\ pc = "wait"
    /\ stack' = [stack EXCEPT ![Len(stack)].option = At(Top.prev_options, Top.option.pos + 1)]
    /\ pc' = "top"
    /\ UNCHANGED <<playing, autoplaying, options, resp, result, exitcode, msg, playlog,
                   descent, voVars, playVars, catVars>>

InitNav ==
    /\ playing = FALSE
    /\ autoplaying = FALSE
    /\ options = None
    /\ stack = <<>>
    /\ resp = <<>>
    /\ result = None
    /\ pc = "top"
    /\ exitcode = -1
    /\ msg = <<>>
    /\ playlog = <<>>
    /\ descent = <<>>

(***************************************************************************)
(* hdialogue.py: VO.play                                                   *)
(*   One call of play() on a built VO. The sinks (terminal, time.sleep,    *)
(*   the external player, input) are recorded in `events`; the external    *)
(*   player is a process of its own that ends when it likes, and           *)
(*   subprocess.run returns only then.                                     *)
(***************************************************************************)
Event(e, i, arg) == [e |-> e, i |-> i, arg |-> arg]

\* the cue of the current iteration of `for cue in self.cues`
CurCue == vocues[cuenum]

\* lines 257-262: the command, the path put in place of the first '{}' of
\* the configured list or appended when there is none
Command(list, path) ==
    IF \E k \in 1..Len(list) : list[k] = "{}"
    THEN LET brace_idx == CHOOSE k \in 1..Len(list) :
                              list[k] = "{}" /\ \A j \in 1..(k - 1) : list[j] # "{}"
         IN  [list EXCEPT ![brace_idx] = path]
    ELSE Append(list, path)

\* lines 239-244: the label (or '(no label)') and its underline
StartPlay ==
    /\ ppc = "start"
    /\ events' = Append(events, Event("header", 0, <<>>))
    /\ ppc' = "loop"
    /\ UNCHANGED <<vocues, file_map, media_player_list, do_prompt, cuenum, running,
                   navVars, voVars, catVars>>

\* lines 245-252: the next cue of the loop, its label and its wrapped text
ShowCue ==
    /\ ppc = "loop"
    /\ cuenum < Len(vocues)
    /\ cuenum' = cuenum + 1
    /\ events' = Append(events, Event("show", cuenum + 1, vocues[cuenum + 1].text))
    /\ ppc' = "delay"
    /\ UNCHANGED <<vocues, file_map, media_player_list, do_prompt, running,
                   navVars, voVars, catVars>>

\* lines 253-254: time.sleep(cue.delay) when the delay is positive
Delay ==
    /\ ppc = "delay"
    /\ events' = IF CurCue.delay > 0
                 THEN Append(events, Event("sleep", cuenum, CurCue.delay))
                 ELSE events
    /\ ppc' = "audio"
    /\ UNCHANGED <<vocues, file_map, media_player_list, do_prompt, cuenum, running,
                   navVars, voVars, catVars>>

\* RunPlayer with subprocess.Popen for subprocess.run: the call does not
\* wait for the player
RunPlayerDetached ==
    /\ ppc = "audio"
    /\ CurCue.cue # <<>>
    /\ CurCue.cue \in DOMAIN file_map
    /\ running' = running + 1
    /\ events' = Append(events, Event("run", cuenum,
                                      Command(media_player_list, file_map[CurCue.cue])))
    /\ ppc' = "loop"
    /\ UNCHANGED <<vocues, file_map, media_player_list, do_prompt, cuenum,
                   navVars, voVars, catVars>>

\* lines 255-263: the id is resolved; subprocess.run starts the player and
\* blocks
RunPlayer ==
    /\ ppc = "audio"
    /\ CurCue.cue # <<>>
    /\ CurCue.cue \in DOMAIN file_map
    /\ running' = running + 1
    /\ events' = Append(events, Event("run", cuenum,
                                      Command(media_player_list, file_map[CurCue.cue])))
    /\ ppc' = "playing"
    /\ UNCHANGED <<vocues, file_map, media_player_list, do_prompt, cuenum,
                   navVars, voVars, catVars>>

\* line 263 returns: the player process has ended; line 266
PlayerDone ==
    /\ ppc = "playing"
    /\ running' = running - 1
    /\ events' = Append(events, Event("done", cuenum, <<>>))
    /\ ppc' = "loop"
    /\ UNCHANGED <<vocues, file_map, media_player_list, do_prompt, cuenum,
                   navVars, voVars, catVars>>

\* NotFound with the lookup of line 259 unguarded: KeyError ends the call
NotFoundRaises ==
    /\ ppc = "audio"
    /\ CurCue.cue # <<>>
    /\ CurCue.cue \notin DOMAIN file_map
    /\ events' = Append(events, Event("KeyError", cuenum, CurCue.cue))
    /\ ppc' = "raise"
    /\ UNCHANGED <<vocues, file_map, media_player_list, do_prompt, cuenum, running,
                   navVars, voVars, catVars>>

\* lines 264-266: the id is not in the file map
NotFound ==
    /\ ppc = "audio"
    /\ CurCue.cue # <<>>
    /\ CurCue.cue \notin DOMAIN file_map
    /\ events' = Append(events, Event("error", cuenum, CurCue.cue))
    /\ ppc' = "loop"
    /\ UNCHANGED <<vocues, file_map, media_player_list, do_prompt, cuenum, running,
                   navVars, voVars, catVars>>

\* line 255 false, line 266: a cue without audio
NoAudio ==
    /\ ppc = "audio"
    /\ CurCue.cue = <<>>
    /\ ppc' = "loop"
    /\ UNCHANGED <<vocues, file_map, media_player_list, do_prompt, cuenum, running,
                   events, navVars, voVars, catVars>>

\* lines 268-270 after the loop: prompt when asked to, else return
EndOfCues ==
    /\ ppc = "loop"
    /\ cuenum = Len(vocues)
    /\ IF do_prompt
       THEN /\ events' = Append(events, Event("prompt", cuenum, <<>>))
            /\ ppc' = "ack"
       ELSE /\ events' = events
            /\ ppc' = "return"
    /\ UNCHANGED <<vocues, file_map, media_player_list, do_prompt, cuenum, running,
                   navVars, voVars, catVars>>

\* line 269 returns: a line was entered; line 270
Acknowledge ==
    /\ ppc = "ack"
    /\ events' = Append(events, Event("ack", cuenum, <<>>))
    /\ ppc' = "return"
    /\ UNCHANGED <<vocues, file_map, media_player_list, do_prompt, cuenum, running,
                   navVars, voVars, catVars>>

(***************************************************************************)
(* The VOs play() is run on: built VOs (not empty, first delay 0) whose    *)
(* cues have a resolvable id, an id without an asset, or no audio          *)
(***************************************************************************)
\* OggLibrary.oggs: the ids with an asset
Oggs == (<<"A">> :> "oggs/1.A.ogg") @@ (<<"B">> :> "oggs/2.B.ogg")

PlayCues ==
    {Cue(id, IF id = <<>> THEN Str(<<"t">>) ELSE None, d, None, None) :
        id \in {<<>>, <<"A">>, <<"X">>}, d \in {0, MaxWait}}

PlayableVOs ==
    {q \in SeqsUpTo(PlayCues, MaxCues) : Len(q) > 0 /\ q[1].delay = 0}

MediaPlayerLists == {<<"mplayer">>, <<"play", "{}", "-q", "{}">>}

(***************************************************************************)
(* hdialogue.py: Dialogue.__init__                                         *)
(*   The three raw inputs are read and the registries built one statement  *)
(*   at a time; the Registry built inside lines 422 and 425 is held in     *)
(*   other_registry until copyfrom has run.                                *)
(***************************************************************************)
\* lines 411-414
ReadNpc ==
    /\ dpc = "npc"
    /\ npc' = Registry(NPCBank, npcdata).data
    /\ printed' = printed \o Registry(NPCBank, npcdata).out
    /\ dpc' = "enemy"
    /\ UNCHANGED <<npcdata, enemydata, lootdata, enemy, loot, other_registry,
                   navVars, voVars, playVars>>

\* lines 416-419
ReadEnemy ==
    /\ dpc = "enemy"
    /\ enemy' = Registry(EnemyBank, enemydata).data
    /\ printed' = printed \o Registry(EnemyBank, enemydata).out
    /\ dpc' = "other_npc"
    /\ UNCHANGED <<npcdata, enemydata, lootdata, npc, loot, other_registry,
                   navVars, voVars, playVars>>

\* line 422, the argument: Registry(NPCBank, ..., enemydata['.Enemies'])
OtherNpc ==
    /\ dpc = "other_npc"
    /\ other_registry' = Registry(NPCBank, enemydata).data
    /\ printed' = printed \o Registry(NPCBank, enemydata).out
    /\ dpc' = "copy_npc"
    /\ UNCHANGED <<npcdata, enemydata, lootdata, npc, enemy, loot,
                   navVars, voVars, playVars>>

\* line 422, the call: self.npc.copyfrom(...)
CopyToNpc ==
    /\ dpc = "copy_npc"
    /\ npc' = Copyfrom(npc, other_registry)
    /\ dpc' = "other_enemy"
    /\ UNCHANGED <<npcdata, enemydata, lootdata, enemy, loot, other_registry, printed,
                   navVars, voVars, playVars>>

\* line 425, the argument: Registry(EnemyBank, ..., npcdata['.NPCs'])
OtherEnemy ==
    /\ dpc = "other_enemy"
    /\ other_registry' = Registry(EnemyBank, npcdata).data
    /\ printed' = printed \o Registry(EnemyBank, npcdata).out
    /\ dpc' = "copy_enemy"
    /\ UNCHANGED <<npcdata, enemydata, lootdata, npc, enemy, loot,
                   navVars, voVars, playVars>>

\* line 425, the call: self.enemy.copyfrom(...)
CopyToEnemy ==
    /\ dpc = "copy_enemy"
    /\ enemy' = Copyfrom(enemy, other_registry)
    /\ dpc' = "loot"
    /\ UNCHANGED <<npcdata, enemydata, lootdata, npc, loot, other_registry, printed,
                   navVars, voVars, playVars>>

\* lines 427-430
ReadLoot ==
    /\ dpc = "loot"
    /\ loot' = Registry(LootBank, lootdata).data
    /\ printed' = printed \o Registry(LootBank, lootdata).out
    /\ dpc' = "done"
    /\ UNCHANGED <<npcdata, enemydata, lootdata, npc, enemy, other_registry,
                   navVars, voVars, playVars>>

(***************************************************************************)
(* The raw inputs Dialogue.__init__ is run on                              *)
(***************************************************************************)
\* a line-set with the one cue /VO/<id>
Line(id) == List(<<Dict("Cue" :> Ref(id))>>)

\* a line-set without cues: VO(...) raises NoCuesException
NoLine == List(<<>>)

Item(k, v) == [key |-> k, value |-> v]

\* what the section of S in the NPC input has under InteractTextLineSets:
\* not a map, empty, only failing line-sets, good ones, both
Interacts ==
    {List(<<>>),
     Object(<<>>),
     Object(<<Item(<<"x">>, NoLine)>>),
     Object(<<Item(<<"x">>, Line(<<"A">>))>>),
     Object(<<Item(<<"x">>, NoLine), Item(<<"y">>, Line(<<"A">>))>>),
     Object(<<Item(<<"x">>, Line(<<"A">>)), Item(<<"y">>, NoLine)>>),
     Object(<<Item(HermesPostEnding01, Line(<<"A">>))>>)}

\* ... and under GiftTextLineSets
Gifts ==
    {None,
     Object(<<Item(<<"x">>, Line(<<"B">>))>>),
     Object(<<Item(<<"y">>, Line(<<"B">>))>>),
     Object(<<Item(HermesPostEnding01, Line(<<"B">>))>>)}

\* ... and under BossPresentationIntroTextLineSets
Intros == {Object(<<Item(<<"x">>, Line(<<"C">>))>>)}

\* the sections of S in the NPC input
Sections ==
    {Dict(i @@ g @@ b) : i \in Optional("InteractTextLineSets", Interacts),
                         g \in Optional("GiftTextLineSets", Gifts),
                         b \in Optional("BossPresentationIntroTextLineSets", Intros)}

\* a section with one NPC line-set, its cue named after the section
NpcOnly(id) == Dict("RepeatableTextLineSets" :> Object(<<Item(<<"r">>, Line(id))>>))

\* a section with one enemy line-set
EnemyOnly(id) ==
    Dict("BossPresentationTextLineSets" :> Object(<<Item(<<"b">>, Line(id))>>))

\* a section with one line-set of either kind
Both(id) == Dict(NpcOnly(id).v @@ EnemyOnly(id).v)

\* npcdata['.NPCs']: S, then maybe T
NpcInputs ==
    {<<Item(<<"S">>, s)>> \o t :
        s \in Sections,
        t \in {<<>>, <<Item(<<"T">>, Dict(EmptyDict))>>, <<Item(<<"T">>, Both(<<"T">>))>>}}

\* enemydata['.Enemies']: maybe S (its line-sets are other ones than those of
\* S in the NPC input), then maybe U
EnemyInputs ==
    {s \o u :
        s \in {<<>>} \cup {<<Item(<<"S">>, x)>> :
                              x \in {Dict(EmptyDict), NpcOnly(<<"E">>),
                                     EnemyOnly(<<"E">>), Both(<<"E">>)}},
        u \in {<<>>, <<Item(<<"U">>, EnemyOnly(<<"U">>))>>,
               <<Item(<<"U">>, NpcOnly(<<"U">>))>>}}

\* lootdata['LootData']: nothing, the known duplicate, another duplicate
LootInputs ==
    {<<>>,
     <<Item(<<"L">>,
            Dict("SuperPriorityPickupTextLineSets"
                    :> Object(<<Item(HermesPostEnding01, Line(<<"P">>))>>)
                 @@ "PriorityPickupTextLineSets"
                    :> Object(<<Item(HermesPostEnding01, Line(<<"Q">>))>>)))>>,
     <<Item(<<"L">>,
            Dict("PickupTextLineSets" :> Object(<<Item(<<"x">>, Line(<<"P">>))>>)
                 @@ "DuoPickupTextLineSets" :> Object(<<Item(<<"x">>, Line(<<"Q">>))>>)
                 @@ "GiftTextLineSets" :> Object(<<Item(<<"x">>, Line(<<"R">>))>>)))>>}

\* no catalog is being built or held
CatalogIdle ==
    /\ npcdata = <<>>
    /\ enemydata = <<>>
    /\ lootdata = <<>>
    /\ npc = <<>>
    /\ enemy = <<>>
    /\ loot = <<>>
    /\ other_registry = <<>>
    /\ printed = <<>>
    /\ dpc = "idle"

\* BaseApp holds the Dialogue built from the session's raw data
CatalogBuilt ==
    /\ npcdata = NpcData
    /\ enemydata = EnemyData
    /\ lootdata = LootData
    /\ npc = Dialogue.npc
    /\ enemy = Dialogue.enemy
    /\ loot = Dialogue.loot
    /\ other_registry = <<>>
    /\ printed = <<>>
    /\ dpc = "done"

\* no VO is being played
PlayIdle ==
    /\ vocues = <<>>
    /\ file_map = <<>>
    /\ media_player_list = <<>>
    /\ do_prompt = FALSE
    /\ cuenum = 0
    /\ ppc = "idle"
    /\ running = 0
    /\ events = <<>>

\* App.run line 295-299; no line-set is being built
Init ==
    /\ InitNav
    /\ lineset = None
    /\ built = New
    /\ PlayIdle
    /\ CatalogBuilt

Next ==
    \/ LoopPass
    \/ StopAutoplay
    \/ TimeoutOccurred
    \/ Quit
    \/ Back
    \/ Replay
    \/ Previous
    \/ NextSibling
    \/ Autoplay
    \/ Choose
    \/ Reject

Spec == Init /\ [][Next]_vars

\* the builder alone, run on every raw line-set of LineSets
InitVO ==
    /\ lineset \in LineSets
    /\ built = New
    /\ InitNav
    /\ PlayIdle
    /\ CatalogIdle

NextBuild == Construct

SpecVO == InitVO /\ [][NextBuild]_vars

\* one call of VO.play, on every VO of PlayableVOs
InitPlay ==
    /\ vocues \in PlayableVOs
    /\ file_map = Oggs
    /\ media_player_list \in MediaPlayerLists
    /\ do_prompt \in BOOLEAN
    /\ cuenum = 0
    /\ ppc = "start"
    /\ running = 0
    /\ events = <<>>
    /\ InitNav
    /\ lineset = None
    /\ built = New
    /\ CatalogIdle

NextPlay ==
    \/ StartPlay
    \/ ShowCue
    \/ Delay
    \/ RunPlayer
    \/ PlayerDone
    \/ NotFound
    \/ NoAudio
    \/ EndOfCues
    \/ Acknowledge

SpecPlay == InitPlay /\ [][NextPlay]_vars

\* Dialogue.__init__ alone, run on every combination of the raw inputs
InitCatalog ==
    /\ npcdata \in NpcInputs
    /\ enemydata \in EnemyInputs
    /\ lootdata \in LootInputs
    /\ npc = <<>>
    /\ enemy = <<>>
    /\ loot = <<>>
    /\ other_registry = <<>>
    /\ printed = <<>>
    /\ dpc = "npc"
    /\ InitNav
    /\ lineset = None
    /\ built = New
    /\ PlayIdle

NextCatalog ==
    \/ ReadNpc
    \/ ReadEnemy
    \/ OtherNpc
    \/ CopyToNpc
    \/ OtherEnemy
    \/ CopyToEnemy
    \/ ReadLoot

SpecCatalog == InitCatalog /\ [][NextCatalog]_vars

(***************************************************************************)
(* Properties                                                              *)
(***************************************************************************)
\* the cues accumulated by VO.__init__ before its final check (line 232)
Accumulated(raw) ==
    IF raw.t = "list" THEN ListCues(raw.v)
    ELSE IF raw.t = "dict" THEN DictCues(raw)
    ELSE <<>>

\* an index entry the dict loop hands to Cue.from_data, which raises NotACue
NotACueEntry(entry) ==
    /\ ~(entry.t = "dict" /\ Has(entry, "Choices") /\ entry.v["Choices"].t = "list")
    /\ ~CueFromData(entry, 0, None).ok

\* the index keys of a raw dict line-set
IndexKeys(raw) == {NumStr(i) : i \in 0..MaxLen} \cap DOMAIN raw.v

\* every pass of the run loop at depth 4 plays the selected VO once; a pass
\* below depth 4 plays nothing
PassPlays ==
    pc = "top" =>
        IF Len(stack) = 4 THEN playlog' = Append(playlog, Top.option.data)
        ELSE playlog' = playlog

\* the step reads input r at the menu prompt
ReadsAtPrompt(r) == pc = "prompt" /\ resp' = r

\* the step re-prompts: an error is shown and nothing else changes
Rejected ==
    /\ pc' = "prompt"
    /\ msg' # <<>>
    /\ exitcode' = -1
    /\ UNCHANGED <<stack, options, playing, autoplaying, playlog>>

\* C1: the navigation stack never holds more than four frames, and the
\* session never exits through the "Unknown state, exiting!" guard.
C1_DepthBounded ==
    /\ Len(stack) \in 0..4
    /\ msg # <<"Unknown state, exiting!">>
    /\ exitcode \in {-1, 0}

C1_Witness ==
    /\ Len(stack) = 4
    /\ pc = "top"
    /\ result = PLAY
    /\ ParseInt(resp).ok

\* C2: the first cue of every successfully built VO has delay 0.
C2_FirstDelayZero ==
    built.state = "built" => built.cues[1].delay = 0

C2_Witness ==
    /\ built.state = "built"
    /\ lineset.t = "dict"
    /\ Accumulated(lineset)[1].delay > 0
    /\ Has(lineset, "EndVoiceLines")

\* C3: a build raises NoCues exactly when no cue was accumulated, so a built
\* VO is never empty; the empty list, lists and dicts whose entries are all
\* NotACue (no EndCue, no EndVoiceLines) and other shapes raise NoCues; a
\* directly parsed cue makes the build succeed whatever its nested builds do.
C3_NoCuesIffEmpty ==
    built.state # "new" =>
        /\ built.state = "NoCuesException" <=> Len(Accumulated(lineset)) = 0
        /\ built.state = "built" => Len(built.cues) > 0
        /\ lineset.t \notin {"list", "dict"} => built.state = "NoCuesException"
        /\ (/\ lineset.t = "list"
            /\ \A i \in 1..Len(lineset.v) : ~CueFromData(lineset.v[i], 0, None).ok)
           => built.state = "NoCuesException"
        /\ (/\ lineset.t = "dict"
            /\ \A k \in IndexKeys(lineset) : NotACueEntry(lineset.v[k])
            /\ ~Has(lineset, "EndCue")
            /\ ~Has(lineset, "EndVoiceLines"))
           => built.state = "NoCuesException"
        /\ (/\ lineset.t = "dict"
            /\ \E i \in 0..(Cardinality(DOMAIN lineset.v) - 1) :
                  /\ Has(lineset, NumStr(i))
                  /\ lineset.v[NumStr(i)].t = "dict"
                  /\ ~Has(lineset.v[NumStr(i)], "Choices")
                  /\ CueFromData(lineset.v[NumStr(i)], 0, None).ok)
           => built.state = "built"

\* a parent that is built although a Choices element and an EndVoiceLines
\* element of it raise NoCues
C3_Witness ==
    /\ built.state = "built"
    /\ lineset.t = "dict"
    /\ \E k \in IndexKeys(lineset) :
          /\ Has(lineset.v[k], "Choices")
          /\ lineset.v[k].v["Choices"].t = "list"
          /\ \E j \in 1..Len(lineset.v[k].v["Choices"].v) :
                ~VO(lineset.v[k].v["Choices"].v[j]).ok
    /\ Has(lineset, "EndVoiceLines")
    /\ lineset.v["EndVoiceLines"].t = "list"
    /\ \E j \in 1..Len(lineset.v["EndVoiceLines"].v) :
          ~VO(lineset.v["EndVoiceLines"].v[j]).ok

\* every frame's sibling list, and the frames below it, are those of the
\* moment the frame was pushed
FramesAsPushed ==
    /\ Len(descent) = Len(stack)
    /\ \A n \in 1..Len(stack) :
          /\ SubSeq(stack, 1, n - 1) = descent[n].stack
          /\ stack[n].prev_options = descent[n].options

\* C4: at any depth 1..4 `back` pops exactly the top frame and presents the
\* sibling list stored on it, without recomputing it; the remaining frames
\* are those held before the descent, whatever was done at depth 4.
C4_BackRestores ==
    /\ []FramesAsPushed
    /\ [][(ReadsAtPrompt(<<"b">>) /\ Len(stack) > 0) =>
            /\ stack' = Front(stack)
            /\ stack' = Last(descent).stack
            /\ options' = List(Top.prev_options)
            /\ options'.v = Last(descent).options
            /\ result' = [t |-> "Breadcrumb", v |-> Top]
            /\ playing' = FALSE
            /\ pc' = "top"]_vars
    /\ [][(pc = "top" /\ options.t = "list" /\ ~autoplaying) =>
            (pc' = "prompt" /\ options' = options /\ stack' = stack)]_vars

\* back from depth 4 after the selection was moved to the third sibling
C4_Witness ==
    /\ Len(stack) = 3
    /\ resp = <<"b">>
    /\ result.t = "Breadcrumb"
    /\ result.v.option.pos = 2
    /\ pc = "prompt"

\* the step reads a number within [1, option-count] at the menu prompt
ReadsValidNumber ==
    /\ pc = "prompt"
    /\ ParseInt(resp').ok
    /\ ParseInt(resp').val >= 1
    /\ ParseInt(resp').val <= NumOptions

\* C5: below depth 4 a valid numeric selection pushes exactly one frame,
\* holding the chosen option and the list it was chosen from, and no step
\* pushes more than one; so depth 4 takes four selections from depth 0. The
\* pass that follows arrival at depth 4 plays the chosen VO; passes at
\* depths 0..3 play nothing.
C5_FourSelections ==
    /\ [][Len(stack') <= Len(stack) + 1]_vars
    /\ [][(ReadsValidNumber /\ Len(stack) < 4) =>
            /\ stack' = Append(stack,
                               Breadcrumb(options.v[ParseInt(resp').val], options.v))
            /\ pc' = "top"]_vars
    /\ [][PassPlays]_vars
    /\ [](Len(stack) < 4 => ~playing)
    /\ []((Len(stack) = 4 /\ pc = "prompt" /\ result.t = "Option") =>
            playlog = <<result.v.data>>)

C5_Witness ==
    /\ Len(stack) = 4
    /\ pc = "prompt"
    /\ result.t = "Option"
    /\ result.v.pos = 1
    /\ playlog = <<Top.option.data>>

\* the VOs of the first n options of a sibling list
DataOf(siblings, n) == [i \in 1..n |-> siblings[i].data]

\* C6: autoplay started at depth 3 and never interrupted plays the siblings
\* in stored order, one more per timeout, and after the last one ends by
\* itself: the depth-4 frame is popped and the option list is the sibling
\* list again.
C6_AutoplayAll ==
    /\ (pc = "wait" /\ result = AUTOPLAY_ALL) =>
          /\ autoplaying
          /\ Len(stack) = 4
          /\ MoreSiblings
          /\ playlog = DataOf(Top.prev_options, Top.option.pos + 1)
    /\ (result = AUTOPLAY_ALL /\ ~autoplaying) =>
          /\ Len(stack) = 3
          /\ ~playing
          /\ options.t = "list"
          /\ options.v = NewOptions(stack)
          /\ playlog = DataOf(options.v, Len(options.v))

C6_Witness ==
    /\ result = AUTOPLAY_ALL
    /\ ~autoplaying
    /\ pc = "prompt"
    /\ Len(stack) = 3
    /\ Len(playlog) = MaxSiblings

\* C7: input arriving during the wait ends autoplay at once: the stack and
\* the selection stay, nothing more is played, and the session is at the
\* menu prompt of that VO with autoplay off; the wait only ever follows the
\* playing of the selected sibling.
C7_InputStopsAutoplay ==
    /\ [](pc = "wait" =>
            /\ autoplaying
            /\ Len(stack) = 4
            /\ Len(playlog) > 0
            /\ Last(playlog) = Top.option.data)
    /\ [](pc = "prompt" => ~autoplaying)
    /\ [][(pc = "wait" /\ result'.t = "str") =>
            /\ autoplaying' = FALSE
            /\ pc' = "prompt"
            /\ playing' = TRUE
            /\ UNCHANGED <<stack, options, playlog>>]_vars

C7_Witness ==
    /\ pc = "prompt"
    /\ result.t = "str"
    /\ Len(stack) = 4
    /\ Top.option.pos = 1
    /\ Len(playlog) = 2

\* the step accepts a command at depth 4 that selects sibling number i
\* (0-based) of the current frame and leaves everything else of the stack
SelectsSibling(i) ==
    /\ stack' = [stack EXCEPT ![4].option = Top.prev_options[i + 1]]
    /\ Top'.prev_options = Top.prev_options
    /\ SubSeq(stack', 1, 3) = SubSeq(stack, 1, 3)
    /\ result' = PLAY
    /\ pc' = "top"
    /\ UNCHANGED <<playing, autoplaying, options>>

\* C8: previous is taken exactly at depth 4 with a sibling before the
\* selected one, next exactly at depth 4 with a sibling after it; each moves
\* the top frame's selection by one and the next pass plays it; otherwise
\* the input is rejected.
C8_PrevNext ==
    /\ [](pc = "prompt" =>
            /\ AllowPrev <=> (Len(stack) = 4 /\ Top.option.pos > 0)
            /\ AllowNext <=> (Len(stack) = 4 /\ Top.option.pos < Len(Top.prev_options) - 1))
    /\ [][ReadsAtPrompt(<<"p">>) =>
            IF Len(stack) = 4 /\ Top.option.pos > 0
            THEN SelectsSibling(Top.option.pos - 1)
            ELSE Rejected]_vars
    /\ [][ReadsAtPrompt(<<"n">>) =>
            IF Len(stack) = 4 /\ Top.option.pos < Len(Top.prev_options) - 1
            THEN SelectsSibling(Top.option.pos + 1)
            ELSE Rejected]_vars
    /\ [][PassPlays /\ (pc = "top" /\ playing => Len(stack) = 4)]_vars

C8_Witness ==
    /\ pc = "prompt"
    /\ resp = <<"p">>
    /\ result = PLAY
    /\ Len(stack) = 4
    /\ Top.option.pos = 1
    /\ playlog = <<Top.option.data>>

\* C9: replay is taken exactly at depth 4; it leaves the stack and the
\* option list as they are, and the next pass plays the selected VO again.
C9_Replay ==
    /\ [][ReadsAtPrompt(<<"r">>) =>
            IF Len(stack) = 4
            THEN /\ UNCHANGED <<stack, options, playing, autoplaying, descent>>
                 /\ playing
                 /\ result' = PLAY
                 /\ pc' = "top"
            ELSE Rejected]_vars
    /\ [][(pc = "top" /\ result = PLAY /\ resp = <<"r">>) =>
            /\ playlog' = <<Top.option.data>>
            /\ pc' = "prompt"
            /\ UNCHANGED <<stack, playing, autoplaying>>]_vars

C9_Witness ==
    /\ pc = "prompt"
    /\ resp = <<"r">>
    /\ result = PLAY
    /\ Len(stack) = 4
    /\ playlog = <<Top.option.data>>

CommandLetters == {<<"q">>, <<"b">>, <<"r">>, <<"p">>, <<"n">>, <<"a">>}

\* the number of options the prompt offers (lines 181-184)
OptionCount == IF Len(stack) = 4 THEN Len(Top.prev_options) ELSE Len(options.v)

\* r is a command letter that is not available in the current state
Unavailable(r) ==
    \/ r = <<"b">> /\ Len(stack) = 0
    \/ r \in {<<"r">>, <<"p">>, <<"n">>} /\ Len(stack) < 4
    \/ r = <<"p">> /\ Len(stack) = 4 /\ Top.option.pos = 0
    \/ r = <<"n">> /\ Len(stack) = 4 /\ Top.option.pos = Len(Top.prev_options) - 1
    \/ r = <<"a">> /\ Len(stack) < 3
    \/ r = <<"a">> /\ Len(stack) = 4 /\ Top.option.pos = Len(Top.prev_options) - 1

\* C10: at the menu prompt a number outside [1, option-count], a token that
\* is neither a number nor a command letter, and a command letter that is
\* not available are rejected: error message, same prompt, stack and flags
\* unchanged, nothing played, no exit.
C10_Rejections ==
    [][(pc = "prompt" /\
        \/ ParseInt(resp').ok /\ (ParseInt(resp').val < 1 \/ ParseInt(resp').val > OptionCount)
        \/ ~ParseInt(resp').ok /\ resp' \notin CommandLetters
        \/ Unavailable(resp'))
       => Rejected]_vars

\* `n` rejected on the last sibling
C10_Witness ==
    /\ pc = "prompt"
    /\ msg = <<"Unknown input, try again!">>
    /\ resp = <<"n">>
    /\ Len(stack) = 4
    /\ Top.option.pos = Len(Top.prev_options) - 1

\* the step reads the line q, at the menu prompt or during the autoplay wait
ReadsQuit ==
    \/ ReadsAtPrompt(<<"q">>)
    \/ pc = "wait" /\ result' = Str(<<"q">>)

\* C11 as stated: input q ends the session from any state, autoplay mode
\* active or not.
C11_QuitAnywhere ==
    [][ReadsQuit => (pc' = "exit" /\ exitcode' = 0)]_vars

\* C11: at the menu prompt, at every depth 0..4 and whether or not a VO is
\* selected, q is accepted and ends the session with status 0, nothing
\* following it; autoplay mode is never active at the menu prompt, and a q
\* typed during the autoplay wait only ends autoplay mode and leads to the
\* menu prompt of the current VO.
C11_QuitAtPrompt ==
    /\ [](pc = "prompt" => (~autoplaying /\ Len(stack) \in 0..4 /\ ENABLED Quit))
    /\ [][ReadsAtPrompt(<<"q">>) =>
            /\ pc' = "exit"
            /\ exitcode' = 0
            /\ msg' = <<>>
            /\ UNCHANGED <<stack, options, playing, autoplaying, playlog>>]_vars
    /\ [][pc # "exit"]_vars
    /\ [][(pc = "wait" /\ result' = Str(<<"q">>)) =>
            /\ pc' = "prompt"
            /\ exitcode' = -1
            /\ autoplaying' = FALSE
            /\ UNCHANGED stack]_vars

\* quit while a VO is selected
C11_Witness ==
    /\ pc = "exit"
    /\ exitcode = 0
    /\ resp = <<"q">>
    /\ Len(stack) = 4
    /\ playing

\* the positions of `events` holding an event of kind e for cue i
EventsAt(e, i) == {j \in 1..Len(events) : events[j].e = e /\ events[j].i = i}

\* the cues whose iteration of the loop has ended
DoneCues ==
    IF ppc \in {"loop", "ack", "return"} THEN 1..cuenum ELSE 1..(cuenum - 1)

\* C12: cues are processed in sequence order, each shown once; a cue's wait
\* happens exactly when its delay is positive, after its display and before
\* its playback request; a playback request is followed by its completion
\* before anything else happens, so at most one request is outstanding; the
\* acknowledgment prompt comes only when asked for and only after the last
\* cue, and nothing but the acknowledgment follows it.
C12_Sequential ==
    /\ running \in {0, 1}
    /\ running = 1 <=> ppc = "playing"
    /\ \A j, k \in 1..Len(events) : j < k => events[j].i <= events[k].i
    /\ \A i \in 1..Len(vocues) :
          /\ Cardinality(EventsAt("show", i)) = (IF i <= cuenum THEN 1 ELSE 0)
          /\ Cardinality(EventsAt("run", i)) <= 1
          /\ \A j \in EventsAt("sleep", i) \cup EventsAt("run", i) \cup EventsAt("error", i) :
                \E s \in EventsAt("show", i) : s < j
          /\ \A j \in EventsAt("run", i) :
                /\ vocues[i].delay > 0 => \E s \in EventsAt("sleep", i) : s < j
                /\ j < Len(events) => events[j + 1] = Event("done", i, <<>>)
                /\ j = Len(events) => ppc = "playing"
          /\ \A j \in EventsAt("done", i) : events[j - 1].e = "run" /\ events[j - 1].i = i
          /\ i \in DoneCues =>
                Cardinality(EventsAt("sleep", i)) = (IF vocues[i].delay > 0 THEN 1 ELSE 0)
          /\ \A j \in EventsAt("sleep", i) :
                /\ vocues[i].delay > 0
                /\ events[j].arg = vocues[i].delay
                /\ events[j - 1].e = "show"
    /\ \A j \in 1..Len(events) :
          events[j].e = "prompt" =>
              /\ do_prompt
              /\ cuenum = Len(vocues)
              /\ \A i \in 1..Len(vocues) : \E s \in EventsAt("show", i) : s < j
              /\ \A k \in (j + 1)..Len(events) : events[k].e = "ack"
    /\ ppc = "return" =>
          /\ cuenum = Len(vocues)
          /\ do_prompt <=> Last(events).e = "ack"

\* a played VO of three cues with audio, a wait before the second, and the
\* acknowledgment
C12_Witness ==
    /\ ppc = "return"
    /\ do_prompt
    /\ Len(vocues) = 3
    /\ \A i \in 1..3 : EventsAt("done", i) # {}
    /\ vocues[2].delay > 0
    /\ EventsAt("sleep", 2) # {}

\* C13: a cue whose non-empty id has no asset gives one 'not found' report
\* and no playback request; a cue with the empty id gives neither (its
\* positive delay is still waited); a resolved id gives one request for its
\* asset and no report; none of these ends the call, and every cue of the VO
\* is shown by the time play returns.
C13_NotFoundContinues ==
    /\ ppc \in {"start", "loop", "delay", "audio", "playing", "ack", "return"}
    /\ \A i \in DoneCues :
          LET id == vocues[i].cue
          IN  /\ (id # <<>> /\ id \notin DOMAIN file_map) =>
                    /\ Cardinality(EventsAt("error", i)) = 1
                    /\ EventsAt("run", i) = {}
                    /\ \A j \in EventsAt("error", i) : events[j].arg = id
              /\ id = <<>> =>
                    /\ EventsAt("error", i) = {}
                    /\ EventsAt("run", i) = {}
                    /\ vocues[i].delay > 0 => EventsAt("sleep", i) # {}
              /\ id \in DOMAIN file_map =>
                    /\ EventsAt("error", i) = {}
                    /\ Cardinality(EventsAt("run", i)) = 1
                    /\ \A j \in EventsAt("run", i) :
                          \E k \in 1..Len(events[j].arg) : events[j].arg[k] = file_map[id]
    /\ \A i \in 1..Len(vocues) :
          (i > cuenum \/ (i = cuenum /\ ppc \in {"delay", "audio"})) =>
              EventsAt("error", i) \cup EventsAt("run", i) = {}
    /\ ppc = "return" =>
          \A i \in 1..Len(vocues) : EventsAt("show", i) # {}

\* a VO whose first cue has no asset, whose second has no audio and a wait,
\* and whose third is played
C13_Witness ==
    /\ ppc = "return"
    /\ Len(vocues) = 3
    /\ vocues[1].cue = <<"X">>
    /\ vocues[2].cue = <<>>
    /\ vocues[2].delay > 0
    /\ vocues[3].cue = <<"A">>
    /\ EventsAt("error", 1) # {}
    /\ EventsAt("sleep", 2) # {}
    /\ EventsAt("done", 3) # {}

\* the raw map has the `Cue` field
HasCueField(d) == Has(d, "Cue")

\* the raw map's `Cue` field is the empty string
IsEmptyRef(d) == Has(d, "Cue") /\ d.v["Cue"].v = <<>>

\* the raw map's `Cue` field is the empty string or matches the pattern
HasValidRef(d) ==
    Has(d, "Cue") /\ (d.v["Cue"].v = <<>> \/ VoReMatch(d.v["Cue"].v).ok)

\* the id a valid `Cue` field stands for: what follows the prefix
RefId(d) ==
    IF d.v["Cue"].v = <<>> THEN <<>>
    ELSE SubSeq(d.v["Cue"].v, Len(VOPrefix) + 1, Len(d.v["Cue"].v))

\* C14: of the elements of a list-shape line-set, exactly those whose `Cue`
\* field is the empty string or matches the pattern become cues, with id ""
\* or the identifier after the prefix, whatever their Text, PreLineWait and
\* StartSound; an element with a missing or malformed `Cue` is NotACue.
C14_CueIffValidRef ==
    (built.state # "new" /\ lineset.t = "list") =>
        LET valid == SelectSeq(lineset.v, HasValidRef)
        IN  /\ built.state = "built" <=> Len(valid) > 0
            /\ built.state = "built" =>
                  /\ Len(built.cues) = Len(valid)
                  /\ \A i \in 1..Len(valid) :
                        /\ built.cues[i].cue = RefId(valid[i])
                        /\ built.cues[i].text =
                              (IF Has(valid[i], "Text") THEN valid[i].v["Text"] ELSE None)

\* a malformed reference with other fields is dropped, an empty one with
\* other fields is kept
C14_Witness ==
    /\ built.state = "built"
    /\ lineset.t = "list"
    /\ Len(lineset.v) = 2
    /\ lineset.v[1].v = ("Cue" :> Str(<<"B">>) @@ "Text" :> Str(<<"t">>))
    /\ IsEmptyRef(lineset.v[2])
    /\ Has(lineset.v[2], "StartSound")
    /\ Len(built.cues) = 1

\* C15 as stated: a raw map without the `Cue` field parses to a cue with the
\* empty id, as a map with the empty `Cue` does.
C15_AbsentIsNoAudio ==
    (/\ built.state # "new"
     /\ lineset.t = "list"
     /\ Len(lineset.v) = 1
     /\ ~HasCueField(lineset.v[1]))
    => (built.state = "built" /\ built.cues[1].cue = <<>>)

\* C15: a raw map without the `Cue` field is NotACue, unlike one with the
\* empty `Cue`: a list-shape line-set yields no more cues than it has
\* elements with the field, its cues without audio are exactly its elements
\* with the empty `Cue`, and a list none of whose elements has the field
\* raises NoCues.
C15_AbsentIsNotACue ==
    (built.state # "new" /\ lineset.t = "list") =>
        /\ Len(built.cues) <= Len(SelectSeq(lineset.v, HasCueField))
        /\ Cardinality({i \in 1..Len(built.cues) : built.cues[i].cue = <<>>})
              = Len(SelectSeq(lineset.v, IsEmptyRef))
        /\ (\A i \in 1..Len(lineset.v) : ~HasCueField(lineset.v[i]))
              => built.state = "NoCuesException"

\* a map without the field is dropped next to one with the empty field
C15_Witness ==
    /\ built.state = "built"
    /\ lineset.t = "list"
    /\ Len(lineset.v) = 2
    /\ lineset.v[1].v = ("Text" :> Str(<<"t">>))
    /\ lineset.v[2].v = ("Cue" :> Str(<<>>) @@ "Text" :> Str(<<"t">>))
    /\ Len(built.cues) = 1

\* an index entry that holds a list of choices
IsChoices(entry) ==
    entry.t = "dict" /\ Has(entry, "Choices") /\ entry.v["Choices"].t = "list"

\* an index entry that is parsed as a cue of its own
IsDirectCue(entry) == ~IsChoices(entry) /\ HasValidRef(entry)

\* the indexes 0 .. K-1 (K the number of keys of the map) that are keys of
\* the map, ascending
Processed(raw) ==
    SelectSeq([n \in 1..Cardinality(DOMAIN raw.v) |-> n - 1],
              LAMBDA i : Has(raw, NumStr(i)))

\* the number of cues an index entry adds to the line-set
Contribution(entry) ==
    IF IsChoices(entry) THEN Len(SubVOs(entry.v["Choices"].v, <<>>))
    ELSE IF HasValidRef(entry) THEN 1 ELSE 0

\* the number of cues the first n processed entries add
RECURSIVE CuesBefore(_, _)
CuesBefore(raw, n) ==
    IF n = 0 THEN 0
    ELSE CuesBefore(raw, n - 1) + Contribution(raw.v[NumStr(Processed(raw)[n])])

\* the PreLineWait of a raw map, 0 if absent
OwnWait(d) == IF Has(d, "PreLineWait") THEN Float(d.v["PreLineWait"]) ELSE 0

\* C16: the line-set's own PreLineWait is added to the first indexed entry
\* parsed as a cue and to no other: every directly parsed cue stands at its
\* place in index order with its own id; the first of them has delay
\* PreLineWait of the line-set plus its own (0 when it is the first cue of
\* the VO), every later one its own PreLineWait; the Greet/Bye example
\* builds exactly [Greet with delay 0, Bye with delay 1].
C16_InitialDelayOnce ==
    /\ (built.state = "built" /\ lineset.t = "dict") =>
          \A n \in 1..Len(Processed(lineset)) :
              LET entry == lineset.v[NumStr(Processed(lineset)[n])]
                  p == CuesBefore(lineset, n - 1) + 1
                  first == \A m \in 1..(n - 1) :
                               ~IsDirectCue(lineset.v[NumStr(Processed(lineset)[m])])
              IN  IsDirectCue(entry) =>
                      /\ p <= Len(built.cues)
                      /\ built.cues[p].cue = RefId(entry)
                      /\ built.cues[p].delay =
                            (IF p = 1 THEN 0
                             ELSE IF first THEN OwnWait(lineset) + OwnWait(entry)
                             ELSE OwnWait(entry))
    /\ (built.state # "new" /\ lineset = GreetBye) =>
          /\ built.state = "built"
          /\ Len(built.cues) = 2
          /\ built.cues[1].cue = <<"G", "r", "e", "e", "t">>
          /\ built.cues[1].delay = 0
          /\ built.cues[2].cue = <<"B", "y", "e">>
          /\ built.cues[2].delay = 1

\* the initial wait added to a first directly parsed cue that is not the
\* first cue of the VO
C16_Witness ==
    /\ built.state = "built"
    /\ lineset.t = "dict"
    /\ Has(lineset, "PreLineWait")
    /\ Has(lineset, "0")
    /\ IsChoices(lineset.v["0"])
    /\ Contribution(lineset.v["0"]) > 0
    /\ Has(lineset, "1")
    /\ IsDirectCue(lineset.v["1"])
    /\ OwnWait(lineset.v["1"]) > 0
    /\ built.cues[Contribution(lineset.v["0"]) + 1].delay
          = OwnWait(lineset) + OwnWait(lineset.v["1"])

\* the number of consecutive index keys "0", "1", ... the map has
RECURSIVE Consecutive(_, _)
Consecutive(raw, n) ==
    IF Has(raw, NumStr(n)) THEN Consecutive(raw, n + 1) ELSE n

\* the map has neither EndCue nor EndVoiceLines: all its cues come from its
\* index entries
IndexedOnly(raw) ==
    raw.t = "dict" /\ ~Has(raw, "EndCue") /\ ~Has(raw, "EndVoiceLines")

\* C17 as stated: a gap stops the iteration, so the cues are those of the
\* consecutive index keys from "0" up to the first missing one.
C17_GapStops ==
    (built.state # "new" /\ IndexedOnly(lineset)) =>
        Len(built.cues) = CuesBefore(lineset, Consecutive(lineset, 0))

\* C17: index keys are taken in ascending order over 0 .. K-1, K the number
\* of keys of the map; a missing index is skipped and does not stop the
\* iteration, so an entry above a gap contributes its cues when its index is
\* below K, and an entry with index K or more contributes nothing.
C17_GapSkipped ==
    (built.state # "new" /\ IndexedOnly(lineset)) =>
        /\ Len(built.cues) = CuesBefore(lineset, Len(Processed(lineset)))
        /\ \A n \in 1..Len(Processed(lineset)) :
              LET entry == lineset.v[NumStr(Processed(lineset)[n])]
              IN  IsDirectCue(entry) =>
                      built.cues[CuesBefore(lineset, n - 1) + 1].cue = RefId(entry)
        /\ \A n \in 1..(Len(Processed(lineset)) - 1) :
              Processed(lineset)[n] < Processed(lineset)[n + 1]

\* the entry "1" gives the only cue of a map without the key "0"
C17_Witness ==
    /\ built.state = "built"
    /\ IndexedOnly(lineset)
    /\ ~Has(lineset, "0")
    /\ Has(lineset, "1")
    /\ IsDirectCue(lineset.v["1"])
    /\ Len(built.cues) = 1
    /\ built.cues[1].cue = RefId(lineset.v["1"])

\* the line-set has a non-null EndCue that matches the pattern
HasEndCue(raw) ==
    /\ raw.t = "dict"
    /\ Has(raw, "EndCue")
    /\ raw.v["EndCue"].t = "str"
    /\ VoReMatch(raw.v["EndCue"].v).ok

\* the line-set has an EndVoiceLines map whose entry "0" is a cue
HasEndVoiceLine(raw) ==
    /\ raw.t = "dict"
    /\ Has(raw, "EndVoiceLines")
    /\ raw.v["EndVoiceLines"].t = "dict"
    /\ Has(raw.v["EndVoiceLines"], "0")
    /\ IsDirectCue(raw.v["EndVoiceLines"].v["0"])

LabelOf(raw) ==
    IF raw.t = "dict" /\ Has(raw, "ChoiceText") THEN raw.v["ChoiceText"] ELSE None

\* the line-sets of the EndVoiceLines of a map
EndVoiceLineSets(raw) ==
    IF ~Has(raw, "EndVoiceLines") THEN {}
    ELSE IF raw.v["EndVoiceLines"].t = "dict" THEN {raw.v["EndVoiceLines"]}
    ELSE IF raw.v["EndVoiceLines"].t = "list"
    THEN {raw.v["EndVoiceLines"].v[j] : j \in 1..Len(raw.v["EndVoiceLines"].v)}
    ELSE {}

\* the number of cues of a map-shape line-set before those of its
\* EndVoiceLines
OwnCues(raw) ==
    CuesBefore(raw, Len(Processed(raw))) + (IF HasEndCue(raw) THEN 1 ELSE 0)

\* C19 as stated: every cue of a VO built from a map with ChoiceText L
\* carries L, and the cues of a list-shape line-set carry no label.
C19_AllTagged ==
    /\ (built.state = "built" /\ lineset.t = "dict" /\ Has(lineset, "ChoiceText")) =>
          \A p \in 1..Len(built.cues) : built.cues[p].choice = lineset.v["ChoiceText"]
    /\ (built.state = "built" /\ lineset.t = "list") =>
          \A p \in 1..Len(built.cues) : built.cues[p].choice = None

\* C19: the ChoiceText of a map-shape line-set (no label when it has none)
\* tags the cues the line-set parses itself, its indexed cues and its
\* EndCue; the cues spliced in from Choices and EndVoiceLines carry the
\* labels of the line-sets they were built from; the cues of a list-shape
\* line-set carry no label.
C19_OwnCuesTagged ==
    /\ (built.state = "built" /\ lineset.t = "dict") =>
          /\ \A n \in 1..Len(Processed(lineset)) :
                LET entry == lineset.v[NumStr(Processed(lineset)[n])]
                    from == CuesBefore(lineset, n - 1) + 1
                    to == CuesBefore(lineset, n)
                IN  /\ IsDirectCue(entry) => built.cues[from].choice = LabelOf(lineset)
                    /\ IsChoices(entry) =>
                          /\ \A p \in from..to :
                                \E j \in 1..Len(entry.v["Choices"].v) :
                                    built.cues[p].choice
                                        \in {LabelOf(entry.v["Choices"].v[j]), None}
                          /\ \A j \in 1..Len(entry.v["Choices"].v) :
                                LET ch == entry.v["Choices"].v[j]
                                IN  (ch.t = "dict" /\ Has(ch, "0") /\ IsDirectCue(ch.v["0"])) =>
                                        \E p \in from..to :
                                            /\ built.cues[p].cue = RefId(ch.v["0"])
                                            /\ built.cues[p].choice = LabelOf(ch)
          /\ HasEndCue(lineset) =>
                /\ built.cues[OwnCues(lineset)].cue = VoReMatch(lineset.v["EndCue"].v).cue
                /\ built.cues[OwnCues(lineset)].choice = LabelOf(lineset)
          /\ \A p \in (OwnCues(lineset) + 1)..Len(built.cues) :
                \E sub \in EndVoiceLineSets(lineset) : built.cues[p].choice = LabelOf(sub)
    /\ (built.state = "built" /\ lineset.t = "list") =>
          \A p \in 1..Len(built.cues) : built.cues[p].choice = None

\* a labelled line-set with the cues of a labelled choice, a cue of its own,
\* its EndCue and the cue of its EndVoiceLines
C19_Witness ==
    /\ built.state = "built"
    /\ lineset.t = "dict"
    /\ LabelOf(lineset) = Str(<<"L">>)
    /\ [p \in 1..Len(built.cues) |-> built.cues[p].cue]
          = <<<<"E">>, <<"F">>, <<"G">>, <<"H">>, <<"B">>, <<"Z">>, <<"V">>>>
    /\ [p \in 1..Len(built.cues) |-> built.cues[p].choice]
          = <<Str(<<"M">>), Str(<<"M">>), None, None, Str(<<"L">>), Str(<<"L">>), None>>

\* C20: every cue of every successfully built VO has a non-negative delay,
\* whatever PreLineWait and EndWait values the input carries.
C20_DelayNonNegative ==
    built.state = "built" =>
        \A p \in 1..Len(built.cues) : built.cues[p].delay >= 0

\* the keys of a dict given as items, in order
Keys(items) == [i \in 1..Len(items) |-> items[i].key]

\* some category of the raw section d, among those of the descriptors, is a
\* map and holds a line-set from which a VO can be built
Yields(descs, d) ==
    \E g \in 1..Len(descs) :
        /\ descs[g].key \in DOMAIN d.v
        /\ d.v[descs[g].key].t = "dict"
        /\ \E j \in 1..Len(d.v[descs[g].key].items) :
              VO(d.v[descs[g].key].items[j].value).ok

\* the names of the sections of raw_data that yield, in input order
Yielding(descs, raw_data) ==
    Keys(SelectSeq(raw_data, LAMBDA it : Yields(descs, it.value)))

\* every registry there is at the moment
AllRegistries == {npc, enemy, loot, other_registry}

\* C21: a Bank fails with NoVOs exactly when no category of its section is a
\* map holding a line-set that builds; so a registry just constructed holds
\* exactly the sections that yield, the failing ones are left out without
\* stopping the others, and every Bank of every registry has a non-empty
\* bucket.
C21_NoVOsIffAllEmpty ==
    /\ dpc = "enemy" => Keys(npc) = Yielding(NPCBank, npcdata)
    /\ dpc = "other_npc" => Keys(enemy) = Yielding(EnemyBank, enemydata)
    /\ dpc = "copy_npc" => Keys(other_registry) = Yielding(NPCBank, enemydata)
    /\ dpc = "copy_enemy" => Keys(other_registry) = Yielding(EnemyBank, npcdata)
    /\ dpc = "done" => Keys(loot) = Yielding(LootBank, lootdata)
    /\ \A registry \in AllRegistries :
          \A i \in 1..Len(registry) :
              \E g \in 1..Len(registry[i].value.groups) :
                  Len(registry[i].value.groups[g].category) > 0

\* the NPC registry was built from two sections: S, whose only line-set has
\* no cue and whose other category is not a map, is left out; T is held
C21_Witness ==
    /\ dpc = "enemy"
    /\ Keys(npcdata) = <<<<"S">>, <<"T">>>>
    /\ npcdata[1].value = Dict("InteractTextLineSets" :> Object(<<Item(<<"x">>, NoLine)>>)
                               @@ "GiftTextLineSets" :> None)
    /\ Keys(npc) = <<<<"T">>>>

\* the groups of a bank whose bucket has the name `label`
BucketsWith(bank, label) ==
    {g \in 1..Len(bank.groups) : HasKey(bank.groups[g].category, label)}

\* every name of every bucket of a bank
Labels(bank) ==
    UNION {{bank.groups[g].category[j].key : j \in 1..Len(bank.groups[g].category)} :
              g \in 1..Len(bank.groups)}

Min(S) == CHOOSE g \in S : \A h \in S : g <= h

\* how often x occurs in a sequence
Count(seq, x) == Cardinality({j \in 1..Len(seq) : seq[j] = x})

\* the VO built from the line-set `label` of the category of group g of the
\* raw section d
OwnVO(d, key, label) ==
    [label |-> label, cues |-> VO(Get(d.v[key].items, label)).cues]

\* the claim for one bank built from the raw section d, when nothing but the
\* construction of its registry has printed so far
DuplicatesKeepFirst(bank, d) ==
    \A label \in Labels(bank) :
        Cardinality(BucketsWith(bank, label)) >= 2 =>
            /\ Get(bank.combined, label)
                  = Get(bank.groups[Min(BucketsWith(bank, label))].category, label)
            /\ \A g \in BucketsWith(bank, label) :
                  Get(bank.groups[g].category, label)
                      = OwnVO(d, bank.groups[g].key, label)
            /\ Count(printed, Warning(label))
                  = IF label = HermesPostEnding01 THEN 0
                    ELSE Cardinality(BucketsWith(bank, label)) - 1

\* C22: when a line-set name builds in two categories of one entity, the
\* combined map holds the VO of the category that is first in descriptor
\* order, each bucket holds the VO built from its own line-set, and one
\* diagnostic is printed for the duplicate unless the name is
\* HermesPostEnding01, for which none is.
C22_FirstCategoryWins ==
    dpc = "enemy" =>
        \A i \in 1..Len(npc) :
            DuplicatesKeepFirst(npc[i].value, Get(npcdata, npc[i].key))

\* S has the name x under Interacts (cue A) and under Gifts (cue B): combined
\* holds the one of Interacts, both buckets differ, one diagnostic
C22_Witness ==
    /\ dpc = "enemy"
    /\ Len(npc) > 0
    /\ npc[1].key = <<"S">>
    /\ BucketsWith(npc[1].value, <<"x">>) = {1, 3}
    /\ Get(npc[1].value.combined, <<"x">>).cues[1].cue = <<"A">>
    /\ Get(npc[1].value.groups[3].category, <<"x">>).cues[1].cue = <<"B">>
    /\ printed = <<Warning(<<"x">>)>>

\* the ids of a registry
Ids(registry) == {registry[i].key : i \in 1..Len(registry)}

\* self_after is self after merging other into it, and other_after is other
Merged(self, self_after, other, other_after) ==
    /\ \A id \in Ids(other) :
          HasKey(self_after, id) /\ Get(self_after, id) = Get(other, id)
    /\ \A id \in Ids(self) \ Ids(other) :
          HasKey(self_after, id) /\ Get(self_after, id) = Get(self, id)
    /\ other_after = other

\* C23: after copyfrom every id of the other registry maps in self to the
\* other's Bank, whatever self held under it; every id of self that the other
\* does not have keeps its Bank; the other registry is unchanged.
C23_Merge ==
    [][/\ (dpc = "copy_npc" /\ dpc' # dpc)
            => Merged(npc, npc', other_registry, other_registry')
       /\ (dpc = "copy_enemy" /\ dpc' # dpc)
            => Merged(enemy, enemy', other_registry, other_registry')]_vars

\* the NPC registry after the merge: the Bank of S was replaced by the one
\* built from the enemy input, T was kept, U was inserted
C23_Witness ==
    /\ dpc = "other_enemy"
    /\ Keys(npc) = <<<<"S">>, <<"T">>, <<"U">>>>
    /\ Ids(other_registry) = {<<"S">>, <<"U">>}
    /\ Get(npc, <<"S">>) = Get(other_registry, <<"S">>)
    /\ HasKey(Registry(NPCBank, npcdata).data, <<"S">>)
    /\ Get(npc, <<"S">>) # Get(Registry(NPCBank, npcdata).data, <<"S">>)

\* the ids that have a section in both raw inputs
CrossFiled == Ids(npcdata) \cap Ids(enemydata)

\* Dialogue.__init__ is past the two copyfrom calls
CrossMerged == dpc \in {"loot", "done"}

\* C24 as claimed: an id with a section in both the NPC and the enemy input is,
\* after the cross-merge, held by the NPC registry and by the enemy registry.
C24_CrossFiledInBoth ==
    CrossMerged =>
        \A id \in CrossFiled : HasKey(npc, id) /\ HasKey(enemy, id)

\* C24: after the cross-merge, an id with a section in both inputs is held by
\* the NPC registry exactly when one of its two sections yields an NPC Bank,
\* and by the enemy registry exactly when one of them yields an enemy Bank;
\* so it is held by both when its sections yield a Bank of either kind.
C24_CrossFiledWhereYielding ==
    CrossMerged =>
        \A id \in CrossFiled :
            /\ HasKey(npc, id) <=> \/ Yields(NPCBank, Get(npcdata, id))
                                   \/ Yields(NPCBank, Get(enemydata, id))
            /\ HasKey(enemy, id) <=> \/ Yields(EnemyBank, Get(npcdata, id))
                                     \/ Yields(EnemyBank, Get(enemydata, id))

\* S is in both inputs and only its section of the enemy input has line-sets,
\* of both kinds: after the merge both registries hold S
C24_Witness ==
    /\ dpc = "done"
    /\ <<"S">> \in CrossFiled
    /\ ~Yields(NPCBank, Get(npcdata, <<"S">>))
    /\ ~Yields(EnemyBank, Get(npcdata, <<"S">>))
    /\ HasKey(npc, <<"S">>)
    /\ HasKey(enemy, <<"S">>)

\* C25: once the catalog is built, no step of the session (numeric selection,
\* back, replay, previous, next, autoplay, timed auto-advance, playing a VO)
\* changes a Registry, a Bank, a VO or a Cue.
C25_CatalogReadOnly ==
    [][<<npc, enemy, loot>>' = <<npc, enemy, loot>>]_vars

\* two VOs were played in a row (autoplay or next) and the session is back at
\* the prompt, the catalog being the one that was built
C25_Witness ==
    /\ pc = "prompt"
    /\ Len(playlog) >= 2
    /\ playlog[1] # playlog[2]
    /\ Registries = Dialogue

\* depth 3, or depth 4 with the selected sibling not the last one
AutoplayAvailable ==
    \/ Len(stack) = 3
    \/ Len(stack) = 4 /\ Top.option.pos < Len(Top.prev_options) - 1

\* C26: `a` is accepted exactly at depth 3 or at depth 4 with a next sibling.
\* At depth 3 it pushes a frame for sibling 0; at depth 4 at position i it
\* moves the selection to sibling i+1 and pushes nothing. The pass that
\* follows plays the selected sibling (sibling 0, resp. i+1) and nothing
\* before it.
C26_Autoplay ==
    [][/\ ReadsAtPrompt(<<"a">>) =>
            IF ~AutoplayAvailable THEN Rejected
            ELSE /\ autoplaying'
                 /\ pc' = "top"
                 /\ playlog' = <<>>
                 /\ IF Len(stack) = 3
                    THEN /\ stack' = Append(stack, Breadcrumb(options.v[1], options.v))
                         /\ options.v[1].pos = 0
                    ELSE /\ stack' = [stack EXCEPT ![Len(stack)].option =
                                         Top.prev_options[Top.option.pos + 2]]
                         /\ stack'[Len(stack)].option.pos = Top.option.pos + 1
       /\ (pc = "top" /\ autoplaying /\ playlog = <<>>) =>
            /\ playlog' = <<Top.option.data>>
            /\ result = AUTOPLAY_ALL => Top.option = Top.prev_options[1]]_vars

\* autoplay was invoked at depth 4 on sibling 0 of three: sibling 1 is
\* selected, it alone was played, and the session waits before sibling 2
C26_Witness ==
    /\ result = AUTOPLAY
    /\ pc = "wait"
    /\ Len(stack) = 4
    /\ Top.option.pos = 1
    /\ playlog = <<Top.prev_options[2].data>>

\* the ids of a sequence of cues
CueIds(cues) == [p \in 1..Len(cues) |-> cues[p].cue]

\* the ids of the cues of the VO built from raw, none when it fails
BuiltIds(raw) == IF VO(raw).ok THEN CueIds(VO(raw).cues) ELSE <<>>

\* the concatenation of a sequence of sequences
RECURSIVE Flat(_)
Flat(seqs) == IF Len(seqs) = 0 THEN <<>> ELSE Head(seqs) \o Flat(Tail(seqs))

\* the ids an index entry stands for: those of its choices in choice order,
\* its own, or none when it is not a cue
EntryIds(entry) ==
    IF IsChoices(entry)
    THEN Flat([j \in 1..Len(entry.v["Choices"].v) |-> BuiltIds(entry.v["Choices"].v[j])])
    ELSE IF HasValidRef(entry) THEN <<RefId(entry)>>
    ELSE <<>>

\* the ids of the indexed entries the builder consumes, in ascending index order
IndexedIds(raw) ==
    Flat([n \in 1..Len(Processed(raw)) |-> EntryIds(raw.v[NumStr(Processed(raw)[n])])])

\* the line-sets of the EndVoiceLines of a map, in listed order
EndVoiceLineSeq(raw) ==
    IF ~Has(raw, "EndVoiceLines") THEN <<>>
    ELSE IF raw.v["EndVoiceLines"].t = "dict" THEN <<raw.v["EndVoiceLines"]>>
    ELSE IF raw.v["EndVoiceLines"].t = "list" THEN raw.v["EndVoiceLines"].v
    ELSE <<>>

\* the ids a map-shape line-set stands for
MapIds(raw) ==
    IndexedIds(raw)
    \o (IF HasEndCue(raw) THEN <<VoReMatch(raw.v["EndCue"].v).cue>> ELSE <<>>)
    \o Flat([j \in 1..Len(EndVoiceLineSeq(raw)) |-> BuiltIds(EndVoiceLineSeq(raw)[j])])

\* the ids a list-shape line-set stands for
ListIds(raw) ==
    [p \in 1..Len(SelectSeq(raw.v, HasValidRef)) |-> RefId(SelectSeq(raw.v, HasValidRef)[p])]

\* C27: the cues of a built VO are in input order. List shape: the elements
\* that parse as cues, in list order. Map shape: the cues of the indexed
\* entries the builder consumes, in ascending index order, a Choices entry
\* standing for the cues of its choices in choice order; then the EndCue cue
\* if any; then the cues of the EndVoiceLines line-sets in listed order.
C27_InputOrder ==
    built.state = "built" =>
        CueIds(built.cues) = IF lineset.t = "list" THEN ListIds(lineset)
                             ELSE MapIds(lineset)

\* a map with a cue at index 0, choices at index 1, an EndCue and two
\* EndVoiceLines line-sets: A, then the choices' E F G H, then Z, then X, Y
C27_Witness ==
    /\ built.state = "built"
    /\ lineset.t = "dict"
    /\ CueIds(built.cues)
          = <<<<"A">>, <<"E">>, <<"F">>, <<"G">>, <<"H">>, <<"Z">>, <<"X">>, <<"Y">>>>

\* the line-set has a non-null EndCue that does not match the pattern
HasBadEndCue(raw) ==
    /\ raw.t = "dict"
    /\ Has(raw, "EndCue")
    /\ raw.v["EndCue"].t = "str"
    /\ ~VoReMatch(raw.v["EndCue"].v).ok

\* EndWait of a map, 0 when absent or null
EndWaitOf(raw) ==
    IF Has(raw, "EndWait") /\ raw.v["EndWait"].t # "None"
    THEN Float(raw.v["EndWait"]) ELSE 0

\* the map with its EndCue set to null
NullEndCue(raw) ==
    Dict([k \in DOMAIN raw.v |-> IF k = "EndCue" THEN None ELSE raw.v[k]])

\* what the builder leaves in `built` for the raw line-set
BuiltFrom(raw) ==
    IF VO(raw).ok THEN [state |-> "built", cues |-> VO(raw).cues]
    ELSE [state |-> "NoCuesException", cues |-> <<>>]

\* the place of the terminal cue: right after the cues of the indexed entries
EndCuePos(raw) == Len(IndexedIds(raw)) + 1

\* the number of cues that follow the terminal cue
CuesAfterEnd(raw) ==
    Len(Flat([j \in 1..Len(EndVoiceLineSeq(raw)) |-> BuiltIds(EndVoiceLineSeq(raw)[j])]))

\* id, place and label of the terminal cue of a matching EndCue
TerminalCue(raw, cues) ==
    /\ Len(cues) = Len(IndexedIds(raw)) + 1 + CuesAfterEnd(raw)
    /\ cues[EndCuePos(raw)].cue = VoReMatch(raw.v["EndCue"].v).cue
    /\ cues[EndCuePos(raw)].choice = LabelOf(raw)

\* a non-matching EndCue: the build is the one of the same map with a null
\* EndCue, and the diagnostic is printed once
BadEndCueDropped ==
    (built.state # "new" /\ HasBadEndCue(lineset)) =>
        /\ built = BuiltFrom(NullEndCue(lineset))
        /\ Count(printed, NoMatch(lineset.v["EndCue"].v)) = 1

\* C28 as claimed: a matching EndCue appends exactly one terminal cue with the
\* referenced id, delay EndWait (0 when absent or null) and the line-set's
\* ChoiceText; a non-matching one appends nothing, prints a diagnostic and
\* changes nothing else.
C28_EndCueDelayIsEndWait ==
    /\ (built.state # "new" /\ HasEndCue(lineset)) =>
          /\ built.state = "built"
          /\ TerminalCue(lineset, built.cues)
          /\ built.cues[EndCuePos(lineset)].delay = EndWaitOf(lineset)
    /\ BadEndCueDropped

\* C28: a matching EndCue appends exactly one terminal cue with the referenced
\* id and the line-set's ChoiceText; its delay is EndWait (0 when absent or
\* null) unless it is the first cue of the VO, whose delay is 0; a
\* non-matching EndCue appends nothing, prints a diagnostic and changes
\* nothing else.
C28_EndCueTerminal ==
    /\ (built.state # "new" /\ HasEndCue(lineset)) =>
          /\ built.state = "built"
          /\ TerminalCue(lineset, built.cues)
          /\ built.cues[EndCuePos(lineset)].delay =
                (IF EndCuePos(lineset) = 1 THEN 0 ELSE EndWaitOf(lineset))
    /\ BadEndCueDropped

\* a labelled map with one indexed cue, EndCue Z with a positive EndWait and
\* EndVoiceLines: Z is the second cue, waits EndWait and carries the label
C28_Witness ==
    /\ built.state = "built"
    /\ HasEndCue(lineset)
    /\ Has(lineset, "ChoiceText")
    /\ Has(lineset, "EndVoiceLines")
    /\ EndWaitOf(lineset) > 0
    /\ CueIds(built.cues) = <<<<"A">>, <<"Z">>, <<"V">>>>
    /\ built.cues[2].delay = EndWaitOf(lineset)
    /\ built.cues[2].choice = lineset.v["ChoiceText"]

\* the numbers of the groups of a bank whose bucket is not empty, ascending
NonEmptyGroups(bank) ==
    SelectSeq([g \in 1..Len(bank.groups) |-> g],
              LAMBDA g : Len(bank.groups[g].category) > 0)

\* the descriptors of the kind of bank a registry holds
DescriptorsOf(registry) ==
    IF registry = "npc" THEN NPCBank
    ELSE IF registry = "enemy" THEN EnemyBank
    ELSE LootBank

\* one option per non-empty bucket of the bank at ref, in the order of the
\* descriptors of its kind, at positions 0, 1, ...
BucketOptions(bank, ref) ==
    /\ Len(bank.groups) = Len(DescriptorsOf(ref[1]))
    /\ \A g \in 1..Len(bank.groups) :
          /\ bank.groups[g].key = DescriptorsOf(ref[1])[g].key
          /\ bank.groups[g].name = DescriptorsOf(ref[1])[g].name
    /\ Len(options.v) = Len(NonEmptyGroups(bank))
    /\ \A n \in 1..Len(options.v) :
          /\ options.v[n].label = bank.groups[NonEmptyGroups(bank)[n]].name
          /\ options.v[n].data = ref \o <<NonEmptyGroups(bank)[n]>>
          /\ options.v[n].pos = n - 1

\* C29: at depth 2 the options are exactly the non-empty buckets of the
\* selected entity, in descriptor order, at consecutive positions from 0; the
\* option lists at depth 2 and at depth 3 are never empty, and autoplay at
\* depth 3 never fails for want of a first sibling.
C29_BucketOptions ==
    /\ (Len(stack) = 2 /\ options.t = "list") =>
          /\ BucketOptions(Deref(Top.option.data), Top.option.data)
          /\ Len(options.v) > 0
    /\ (Len(stack) = 3 /\ options.t = "list") => Len(options.v) > 0
    /\ msg # <<"IndexError">>

\* the entity 12 is selected: its middle bucket is empty, and the options are
\* Interacts at 0 and Gifts at 1
C29_Witness ==
    /\ pc = "prompt"
    /\ Len(stack) = 2
    /\ Top.option.label = <<"1", "2">>
    /\ Len(Deref(Top.option.data).groups[2].category) = 0
    /\ Len(options.v) = 2
    /\ options.v[1].label = "Interacts"
    /\ options.v[2].label = "Gifts"
    /\ options.v[2].pos = 1

\* the names of a dict given as items
KeySet(items) == {items[i].key : i \in 1..Len(items)}

\* the names of the line-sets of category `key` of the raw section d from
\* which a VO can be built
BuildingNames(d, key) ==
    IF key \in DOMAIN d.v /\ d.v[key].t = "dict"
    THEN {d.v[key].items[j].key : j \in {j \in 1..Len(d.v[key].items) :
                                            VO(d.v[key].items[j].value).ok}}
    ELSE {}

\* the claim for one bank built from the raw section d
CombinedIsUnion(bank, d) ==
    /\ KeySet(bank.combined) = Labels(bank)
    /\ \A g \in 1..Len(bank.groups) :
          KeySet(bank.groups[g].category) = BuildingNames(d, bank.groups[g].key)

\* C30: in every Bank that is constructed the keys of the combined map are
\* the union of the keys of its buckets, and each bucket holds exactly the
\* names of its category whose VO was built: a line-set failing with NoCues
\* is in neither, and the line-sets around it are still added.
C30_CombinedKeys ==
    /\ dpc = "enemy" =>
          \A i \in 1..Len(npc) : CombinedIsUnion(npc[i].value, Get(npcdata, npc[i].key))
    /\ dpc = "other_npc" =>
          \A i \in 1..Len(enemy) :
              CombinedIsUnion(enemy[i].value, Get(enemydata, enemy[i].key))
    /\ dpc = "copy_npc" =>
          \A i \in 1..Len(other_registry) :
              CombinedIsUnion(other_registry[i].value,
                              Get(enemydata, other_registry[i].key))
    /\ dpc = "copy_enemy" =>
          \A i \in 1..Len(other_registry) :
              CombinedIsUnion(other_registry[i].value,
                              Get(npcdata, other_registry[i].key))
    /\ dpc = "done" =>
          \A i \in 1..Len(loot) : CombinedIsUnion(loot[i].value, Get(lootdata, loot[i].key))

\* S has a failing line-set x followed by y under Interacts and x under
\* Gifts: the Interacts bucket holds y only, combined holds y and x
C30_Witness ==
    /\ dpc = "enemy"
    /\ Len(npc) > 0
    /\ npc[1].key = <<"S">>
    /\ "InteractTextLineSets" \in DOMAIN npcdata[1].value.v
    /\ npcdata[1].value.v["InteractTextLineSets"].t = "dict"
    /\ Keys(npcdata[1].value.v["InteractTextLineSets"].items) = <<<<"x">>, <<"y">>>>
    /\ Keys(npc[1].value.groups[1].category) = <<<<"y">>>>
    /\ Keys(npc[1].value.groups[3].category) = <<<<"x">>>>
    /\ Keys(npc[1].value.combined) = <<<<"y">>, <<"x">>>>

\* the step reads, at the menu prompt, a response that int() parses to k
ReadsNumber(k) ==
    /\ pc = "prompt"
    /\ ParseInt(resp').ok
    /\ ParseInt(resp').val = k

\* C31: at depth 4 a number k from 1 to the length of the top frame's
\* sibling list selects sibling k of that list, returns PLAY without pushing
\* or popping a frame, and the next pass plays the selected VO; a number
\* outside that range is rejected, whatever the (empty) option list holds.
C31_NumberAtDepthFour ==
    /\ [][\A k \in 0..(MaxInput + 1) :
            (ReadsNumber(k) /\ Len(stack) = 4) =>
                IF 1 <= k /\ k <= Len(Top.prev_options)
                THEN /\ SelectsSibling(k - 1)
                     /\ Top'.option.pos = k - 1
                     /\ Len(stack') = 4
                ELSE Rejected]_vars
    /\ [][(pc = "top" /\ Len(stack) = 4 /\ result = PLAY) =>
            playlog' = <<Top.option.data>>]_vars

\* "3" typed at depth 4: the third sibling is selected and played
C31_Witness ==
    /\ pc = "prompt"
    /\ Len(stack) = 4
    /\ resp = <<"3">>
    /\ result = PLAY
    /\ Top.option.pos = 2
    /\ Len(options.v) = 0
    /\ playlog = <<Top.prev_options[3].data>>

\* the number of cues the entries under the index keys below i add
RECURSIVE CuesBelow(_, _)
CuesBelow(raw, i) ==
    IF i = 0 THEN 0
    ELSE CuesBelow(raw, i - 1)
         + (IF Has(raw, NumStr(i - 1)) THEN Contribution(raw.v[NumStr(i - 1)]) ELSE 0)

\* the map with the entry under the index key i replaced by an empty map,
\* which is not a cue and prints nothing
Blanked(raw, i) == Dict([raw.v EXCEPT ![NumStr(i)] = Dict(EmptyDict)])

\* the outcome of building raw, as Construct records it
Outcome(raw) ==
    IF VO(raw).ok THEN [state |-> "built", cues |-> VO(raw).cues]
    ELSE [state |-> "NoCuesException", cues |-> <<>>]

SelectionInList(frame) ==
    /\ frame.option.pos + 1 \in 1..Len(frame.prev_options)
    /\ frame.prev_options[frame.option.pos + 1] = frame.option

\* the step leaves the depth, every sibling list and every frame below the
\* top as they are
OnlyTopSelection ==
    /\ Len(stack') = Len(stack)
    /\ \A n \in 1..Len(stack) :
          /\ stack'[n].prev_options = stack[n].prev_options
          /\ n < Len(stack) => stack'[n] = stack[n]

\* the step takes one of the commands that move within a sibling list:
\* previous, next, replay, a number at depth 4, autoplay at depth 4
MovesAmongSiblings ==
    /\ pc = "prompt"
    /\ pc' = "top"
    /\ Len(stack) = 4
    /\ \/ resp' \in {<<"p">>, <<"n">>, <<"r">>, <<"a">>}
       \/ ParseInt(resp').ok

\* the step is the autoplay advance of lines 365-366
AutoplayAdvance == pc = "wait" /\ pc' = "top"

\* C33: every frame's selection is the element of the frame's sibling list
\* at the selection's own position. Previous, next, replay, a number at
\* depth 4, autoplay at depth 4 and the autoplay advance keep the depth, all
\* sibling lists and all frames below the top; so does every other step
\* that keeps the depth.
C33_SelectionInList ==
    /\ [](\A n \in 1..Len(stack) : SelectionInList(stack[n]))
    /\ [][(MovesAmongSiblings \/ AutoplayAdvance) => OnlyTopSelection]_vars
    /\ [][AutoplayAdvance => Top'.option = Top.prev_options[Top.option.pos + 2]]_vars
    /\ [][Len(stack') = Len(stack) => OnlyTopSelection]_vars

\* autoplay has advanced to the third sibling under a frame whose own
\* selection is the second of its list
C33_Witness ==
    /\ pc = "top"
    /\ autoplaying
    /\ Len(stack) = 4
    /\ Top.option.pos = 2
    /\ stack[3].option.pos = 1
    /\ Len(playlog) = 2

\* C34: at the menu prompt the autoplay flag is false and the playing flag
\* is true exactly at depth 4; the autoplay flag is true at depth 4 only;
\* a pass of the main loop at depth 4 plays the top frame's selected VO once
\* and a pass below plays nothing, and nothing is played between the end of
\* a pass and the next one, whether the session waits at the prompt or at
\* the timed wait.
C34_PlayingAtDepthFour ==
    /\ [](pc = "prompt" => (~autoplaying /\ (playing <=> Len(stack) = 4)))
    /\ [](autoplaying => Len(stack) = 4)
    /\ [][(pc = "top" /\ Len(stack) = 4) =>
            /\ playlog' = Append(playlog, Top.option.data)
            /\ pc' \in {"prompt", "wait", "top"}
            /\ pc' = "top" => (Len(stack') = 3 /\ ~playing' /\ ~autoplaying')]_vars
    /\ [][(pc = "top" /\ Len(stack) < 4) => playlog' = playlog]_vars
    /\ [][(pc = "prompt" \/ pc = "wait") => (playlog' = playlog \/ playlog' = <<>>)]_vars

\* autoplay was taken at depth 4 on the first of three siblings; the other
\* two were played, the frame was popped and the session is at the prompt
\* of the line-set list, not playing
C34_Witness ==
    /\ pc = "prompt"
    /\ result = AUTOPLAY
    /\ Len(stack) = 3
    /\ ~playing
    /\ ~autoplaying
    /\ Len(playlog) = 2
    /\ Len(options.v) = 3

====
